---------------------------- MODULE Spec2Model ----------------------------
(***************************************************************************)
(* A model of chaotic-canvas: the genetic algorithm that evolves a         *)
(* population of images towards a target image.                            *)
(*                                                                         *)
(*   Spec      NewGeneticAlgorithm, Run and evolvePopulation with its pair *)
(*             tasks, the batch channel and the progress sink              *)
(*   FitSpec   Individual.CalculateFitness on pixel buffers                *)
(*   CtorSpec  NewGeneticAlgorithm alone                                   *)
(*   SelSpec   TournamentSelect, a mini-tournament a step                  *)
(*   ResizeSpec  imageio.Resize                                            *)
(*   BlendSpec, PointSpec, GaussSpec, PatchSpec                            *)
(*             the four crossover strategies on pixel buffers              *)
(*   ObjSpec   the objects a run allocates and the references to them      *)
(*   PowSpec   FloorPowerOfTen of mathutil and of utils                    *)
(*   RandSpec  mathutil.RandomBetween on 64-bit integers                   *)
(*   DrawSpec  the counts Mutate draws: iterations and polygon vertices    *)
(*   AmsSpec   the controller alone over a longer run of generations       *)
(*   CacheSpec concurrent calls of getMutationCache                        *)
(*   BatchSpec the batch loop of evolvePopulation alone                    *)
(*                                                                         *)
(* float64 values are fixed-point numbers with Scale units per 1.0,        *)
(* extended with +Inf, -Inf and NaN, which follow the IEEE rules the code  *)
(* relies on (x/0, 0*Inf, comparisons with NaN).  Every divisor in the     *)
(* code is a sum of non-negative terms or a positive count, so the sign of *)
(* zero is not modelled.                                                   *)
(***************************************************************************)
EXTENDS Integers, Sequences, FiniteSets, TLC

VARIABLES
    args,            \* the arguments given to NewGeneticAlgorithm and Run, and the CPU count
    pc,              \* where the caller's goroutine is
    ga,              \* the GeneticAlgorithm object (Nil before construction)
    err,             \* the error NewGeneticAlgorithm returned (Nil for none)
    gen,             \* Run: the loop variable
    bestFitness,     \* Run: best fitness seen so far
    bestIndividual,  \* Run: copy of the best individual seen so far
    ams,             \* Run: the AdaptiveMutationStrategy
    ev,              \* evolvePopulation's frame
    tasks,           \* the pair goroutines of the current batch, by first slot
    batchChan,       \* the current batch's buffered result channel
    recv,            \* the caller's sink and its consumer
    fit,             \* FitSpec: the call of CalculateFitness
    initialFitness,  \* the caller's reading of Population[0].Fitness before Run
    sel,             \* SelSpec: the call of TournamentSelect
    rz,              \* ResizeSpec: the call of Resize
    cx,              \* the crossover specifications: the call of one strategy
    obj,             \* ObjSpec: the objects of a run and who refers to them
    au,              \* AmsSpec: the updates of the controller outside a run
    mu,              \* the calls of mathutil and the draws of Mutate
    cache            \* CacheSpec: the cacheManager and the callers of getMutationCache

vars == <<args, pc, ga, err, gen, bestFitness, bestIndividual, ams, ev, tasks,
          batchChan, recv, fit, initialFitness, sel, rz, cx, obj, au, mu, cache>>

Nil == "nil"

-----------------------------------------------------------------------------
(* float64 *)

Scale == 10 ^ 4

Fin(n) == <<"fin", n>>
PInf == <<"inf", 1>>
NInf == <<"inf", -1>>
NaN == <<"nan", 0>>
FromInt(n) == Fin(n * Scale)

IsNaN(a) == a[1] = "nan"
IsFin(a) == a[1] = "fin"
IsInf(a) == a[1] = "inf"
Sign(n) == IF n > 0 THEN 1 ELSE IF n < 0 THEN -1 ELSE 0
FSign(a) == IF IsNaN(a) THEN 0 ELSE Sign(a[2])

\* a < b on float64: false when either side is NaN
FLt(a, b) ==
    IF IsNaN(a) \/ IsNaN(b) THEN FALSE
    ELSE IF IsFin(a) /\ IsFin(b) THEN a[2] < b[2]
    ELSE IF IsInf(a) /\ IsInf(b) THEN a[2] < b[2]
    ELSE IF IsInf(a) THEN a[2] < 0
    ELSE b[2] > 0
FGt(a, b) == FLt(b, a)
FLe(a, b) == ~IsNaN(a) /\ ~IsNaN(b) /\ ~FLt(b, a)
FGe(a, b) == FLe(b, a)

FNeg(a) == IF IsNaN(a) THEN NaN ELSE <<a[1], -a[2]>>

FAdd(a, b) ==
    IF IsNaN(a) \/ IsNaN(b) THEN NaN
    ELSE IF IsFin(a) /\ IsFin(b) THEN Fin(a[2] + b[2])
    ELSE IF IsInf(a) /\ IsInf(b) THEN (IF a[2] = b[2] THEN a ELSE NaN)
    ELSE IF IsInf(a) THEN a
    ELSE b
FSub(a, b) == FAdd(a, FNeg(b))

\* floor(x * y / Scale) without an intermediate product above the result's size
MulUnits(x, y) ==
    LET x1 == x \div Scale
        x0 == x % Scale
        y1 == y \div Scale
        y0 == y % Scale
    IN  x1 * y1 * Scale + x1 * y0 + x0 * y1 + (x0 * y0) \div Scale

FMul(a, b) ==
    IF IsNaN(a) \/ IsNaN(b) THEN NaN
    ELSE IF IsFin(a) /\ IsFin(b) THEN Fin(MulUnits(a[2], b[2]))
    ELSE IF FSign(a) = 0 \/ FSign(b) = 0 THEN NaN          \* 0 * Inf
    ELSE <<"inf", FSign(a) * FSign(b)>>

\* floor(x * Scale / y) for y > 0
DivUnits(x, y) == (x \div y) * Scale + ((x % y) * Scale) \div y

FDiv(a, b) ==
    IF IsNaN(a) \/ IsNaN(b) THEN NaN
    ELSE IF IsInf(a) /\ IsInf(b) THEN NaN
    ELSE IF IsInf(a) THEN <<"inf", a[2] * (IF FSign(b) < 0 THEN -1 ELSE 1)>>
    ELSE IF IsInf(b) THEN Fin(0)
    ELSE IF b[2] = 0 THEN (IF a[2] = 0 THEN NaN ELSE <<"inf", Sign(a[2])>>)
    ELSE IF b[2] > 0 THEN Fin(DivUnits(a[2], b[2]))
    ELSE Fin(DivUnits(-a[2], -b[2]))

\* math.Abs
MathAbs(a) == IF IsNaN(a) THEN NaN ELSE <<a[1], a[2] * Sign(a[2])>>

\* int(x) of a finite float64: truncation towards zero
FTrunc(a) == IF a[2] >= 0 THEN a[2] \div Scale ELSE -((-a[2]) \div Scale)

-----------------------------------------------------------------------------
(* package mathutil *)

Min(a, b) == IF a < b THEN a ELSE b
Max(a, b) == IF a > b THEN a ELSE b
Clamp(value, min, max) ==
    IF value < min THEN min
    ELSE IF value > max THEN max
    ELSE value

\* the float64 instances of Min, Max, Clamp and Abs
FMin(a, b) == IF FLt(a, b) THEN a ELSE b
FMax(a, b) == IF FGt(a, b) THEN a ELSE b
FClamp(value, min, max) ==
    IF FLt(value, min) THEN min
    ELSE IF FGt(value, max) THEN max
    ELSE value
FAbs(value) == IF FLt(value, Fin(0)) THEN FNeg(value) ELSE value

smallTable == <<1, 10, 100, 1000, 10000, 100000, 1000000>>

RECURSIVE DivideDown(_, _)
DivideDown(value, result) ==
    IF value >= 10 THEN DivideDown(value \div 10, result * 10) ELSE result

\* the table read with n <= v*10: a variant C38 has to exclude
FloorPowerOfTenInclusive(n) ==
    IF n <= 0 THEN 1
    ELSE IF n < 10 THEN 1
    ELSE IF \E k \in 1..Len(smallTable) : n <= smallTable[k] * 10
         THEN smallTable[CHOOSE k \in 1..Len(smallTable) :
                            /\ n <= smallTable[k] * 10
                            /\ \A j \in 1..(k - 1) : ~(n <= smallTable[j] * 10)]
         ELSE DivideDown(n, 1)

FloorPowerOfTen(n) ==
    IF n <= 0 THEN 1
    ELSE IF n < 10 THEN 1
    ELSE IF \E k \in 1..Len(smallTable) : n < smallTable[k] * 10
         THEN smallTable[CHOOSE k \in 1..Len(smallTable) :
                            /\ n < smallTable[k] * 10
                            /\ \A j \in 1..(k - 1) : ~(n < smallTable[j] * 10)]
         ELSE DivideDown(n, 1)

\* the values rand.Intn(b-a+1)+a can take after the swap
RandomBetween(a, b) == IF a > b THEN b..a ELSE a..b


-----------------------------------------------------------------------------
(* mutation.go: the adaptive mutation controller *)

mutationHistorySize == 10
plateauDurationThreshold == 5

minMutationRateFloor == Fin(Scale \div 100)           \* 0.01
minMutationRateScale == Fin(Scale \div 5)             \* 0.2
maxMutationRateScale == FromInt(5)                    \* 5.0
maxMutationRateCeiling == Fin((4 * Scale) \div 10)    \* 0.4
plateauFitnessThreshold == Fin(Scale \div 100)        \* 0.01
improvementThreshold == Fin(Scale \div 1000)          \* 0.001

NewMutationHistory(size) ==
    [history |-> [k \in 0..(size - 1) |-> Fin(0)], size |-> size, index |-> 0,
     lastBest |-> Fin(0), plateauCount |-> 0]

Record(mh, avgFitness, bestFitnessNow) ==
    [mh EXCEPT
        !.history = [mh.history EXCEPT ![mh.index] = avgFitness],
        !.index = (mh.index + 1) % mh.size,
        !.plateauCount =
            IF /\ FGt(mh.lastBest, Fin(0))
               /\ FLt(FAbs(FSub(bestFitnessNow, mh.lastBest)), plateauFitnessThreshold)
            THEN mh.plateauCount + 1
            ELSE 0,
        !.lastBest = bestFitnessNow]

\* a sample compared with the slot after it: a variant C34 has to exclude
ScorePairForward(mh, i) ==
    LET cur == (mh.index - 1 - i + mh.size) % mh.size
    IN  <<cur, (cur + 1) % mh.size>>

\* cur and prev of iteration i of the loop of GetImprovementScore
ScorePair(mh, i) ==
    LET cur == (mh.index - 1 - i + mh.size) % mh.size
    IN  <<cur, (cur - 1 + mh.size) % mh.size>>

RECURSIVE ImprovementSum(_, _)
ImprovementSum(mh, i) ==
    IF i < 0 THEN Fin(0)
    ELSE LET cur == ScorePair(mh, i)[1]
             prev == ScorePair(mh, i)[2]
         IN  FAdd(ImprovementSum(mh, i - 1),
                  FDiv(FSub(mh.history[cur], mh.history[prev]), mh.history[prev]))

GetImprovementScore(mh) ==
    FDiv(ImprovementSum(mh, mh.size - 2), FromInt(mh.size - 1))

NewAdaptiveMutationStrategy(baseMutationRate) ==
    [baseRate |-> baseMutationRate,
     minRate |-> FMax(minMutationRateFloor, FMul(minMutationRateScale, baseMutationRate)),
     maxRate |-> FMin(maxMutationRateCeiling, FMul(maxMutationRateScale, baseMutationRate)),
     history |-> NewMutationHistory(mutationHistorySize)]

\* r is the value rand.Float64() returned
computeMutationRate(a, stagnation, diversity, progress, r) ==
    LET stagnationFactor == FAdd(FromInt(1), FMul(stagnation, FromInt(2)))
        diversityFactor ==
            FAdd(FromInt(1), FMul(FSub(FromInt(1), diversity), Fin(Scale \div 2)))
        progressFactor == FSub(FromInt(1), FMul(progress, Fin((7 * Scale) \div 10)))
        factor == FDiv(FromInt(a.history.plateauCount), FromInt(10))
        plateauFactor ==
            IF a.history.plateauCount > plateauDurationThreshold
            THEN FAdd(FromInt(1), IF FGt(factor, FromInt(2)) THEN FromInt(2) ELSE factor)
            ELSE FromInt(1)
        randomFactor ==
            FAdd(FromInt(1), FSub(FMul(r, Fin(Scale \div 10)), Fin(Scale \div 20)))
        rate == FMul(FMul(FMul(FMul(FMul(a.baseRate, stagnationFactor), diversityFactor),
                               progressFactor), plateauFactor), randomFactor)
    IN  FClamp(rate, a.minRate, a.maxRate)

RECURSIVE SumFitness(_, _)
SumFitness(pop, n) ==
    IF n = 0 THEN Fin(0) ELSE FAdd(SumFitness(pop, n - 1), pop[n].Fitness)

\* the stagnation Update computes from the history after Record
Stagnation(h, g) ==
    IF g >= h.size /\ FLt(GetImprovementScore(h), improvementThreshold)
    THEN FSub(FromInt(1), FMul(GetImprovementScore(h), FromInt(1000)))
    ELSE Fin(0)

\* Update returns the strategy as it leaves it and the new mutation rate
Update(a, pop, g, maxGen, r) ==
    LET avgFitness == FDiv(SumFitness(pop, Len(pop)), FromInt(Len(pop)))
        best == pop[1].Fitness
        h == Record(a.history, avgFitness, best)
        a2 == [a EXCEPT !.history = h]
        stagnation == Stagnation(h, g)
        diversity ==
            IF Len(pop) > 0 /\ FGt(avgFitness, Fin(0))
            THEN FDiv(MathAbs(FSub(best, avgFitness)), best)
            ELSE Fin(0)
        progress == FDiv(FromInt(g), FromInt(maxGen))
    IN  [ams |-> a2, rate |-> computeMutationRate(a2, stagnation, diversity, progress, r)]

-----------------------------------------------------------------------------
(* Bounds of the model *)

MaxPop == 4            \* population sizes 0..MaxPop
MaxGen == 3            \* generation counts 0..MaxGen
MaxTournament == 2     \* tournament sizes 0..MaxTournament
MaxEvery == 2          \* reporting intervals 0..MaxEvery
MaxCPU == 2            \* runtime.NumCPU() in 1..MaxCPU
MaxFitness == 1        \* fitness values 0..MaxFitness
MaxWork == 6           \* popSize * generations is at most MaxWork

\* width and height of the targets tried: one a pixel wide and below 16
\* pixels, one too small for createRandomPolygons, one of 16 pixels
TargetShapes == {<<1, 7>>, <<2, 2>>, <<4, 4>>}

\* values rand.Float64() returns, one for each band the code distinguishes
Float64Draws == {0, Scale \div 2, (8 * Scale) \div 10, Scale - 1}
\* the draw of Run's controller jitter: the middle of [0, 1), no jitter
JitterDraws == {Scale \div 2}

FitnessValues == {FromInt(f) : f \in 0..MaxFitness}
MutationRates == {Fin(-1), Fin(0), Fin(Scale \div 20), Fin(Scale + 1)}

NilTarget == [nil |-> TRUE, W |-> 0, H |-> 0]
Targets == {NilTarget} \cup {[nil |-> FALSE, W |-> s[1], H |-> s[2]] : s \in TargetShapes}

-----------------------------------------------------------------------------
(* individual.go *)

\* An Individual is its Fitness and the bounds W, H of its Image, with two
\* facts about the object that the values do not show:
\*   scored  Fitness is the distance CalculateFitness computed for the pixels
\*           the Image holds now
\*   shared  the object is an element of ga.Population, which every pair task
\*           of a generation reads

\* a nil *Individual
NilIndividual == [Fitness |-> NaN, W |-> -1, H |-> -1, scored |-> FALSE, shared |-> FALSE]

\* createRandomPolygons calls rand.Intn(2*region), rand.Intn(Dx) and rand.Intn(Dy)
NewIndividualPanics(width, height) ==
    LET region == (width + height) \div 8
    IN  2 * region <= 0 \/ width <= 0 \/ height <= 0

NewIndividual(width, height) ==
    [Fitness |-> PInf, W |-> width, H |-> height, scored |-> FALSE, shared |-> FALSE]

\* CreateCopy with the bounds transposed: a variant C9 has to exclude
CreateCopyTransposed(ind) ==
    [Fitness |-> ind.Fitness, W |-> ind.H, H |-> ind.W, scored |-> ind.scored,
     shared |-> FALSE]

\* a new object with the Fitness and the pixels of ind
CreateCopy(ind) ==
    [Fitness |-> ind.Fitness, W |-> ind.W, H |-> ind.H, scored |-> ind.scored,
     shared |-> FALSE]

\* a new individual with an empty image of the receiver's bounds
CreateBlankCopy(ind) ==
    [Fitness |-> PInf, W |-> ind.W, H |-> ind.H, scored |-> FALSE, shared |-> FALSE]

\* ind after a write to the pixels of its Image
Drawn(ind) == [ind EXCEPT !.scored = FALSE]

\* whose object a write to ind changes: one of the population the tasks
\* share, or one its creator still holds alone
WriteClass(ind) == IF ind.shared THEN "input" ELSE "own"

\* the individuals as elements of ga.Population
Publish(population) ==
    [i \in 1..Len(population) |-> [population[i] EXCEPT !.shared = TRUE]]

\* the individual left as it is: a variant C20 has to exclude
NotScored(ind, f) == ind

\* CalculateFitness stores the distance of the pixels to the target; Spec does
\* not hold the pixels, and f is the distance they have (FitSpec computes it)
Scored(ind, f) == [ind EXCEPT !.Fitness = f, !.scored = TRUE]

\* sort.Slice with less(i, j) = s[i].Fitness < s[j].Fitness: the order of equal
\* elements is not fixed, so every ordered permutation is a result
IsOrdered(s) == \A i \in 1..(Len(s) - 1) : ~FLt(s[i + 1].Fitness, s[i].Fitness)
\* the slice left as it is: a variant C2 has to exclude
Unsorted(s) == {s}
SortedByFitness(s) ==
    {t \in {[i \in 1..Len(s) |-> s[p[i]]] : p \in Permutations(1..Len(s))} : IsOrdered(t)}

-----------------------------------------------------------------------------
(* selection.go *)

numTournaments == 4

\* the first participant kept whatever the others are: a variant C15 has to
\* exclude
MiniTournamentFirst(population, draws, j) == draws[1]

\* the index of tournamentBest after the draws 1..j of one mini-tournament
RECURSIVE MiniTournament(_, _, _)
MiniTournament(population, draws, j) ==
    IF j = 1 THEN draws[1]
    ELSE LET tournamentBest == MiniTournament(population, draws, j - 1)
         IN  IF FLt(population[draws[j]].Fitness, population[tournamentBest].Fitness)
             THEN draws[j]
             ELSE tournamentBest

\* the index of best after the mini-tournaments 1..i, won by winners[1..i]
RECURSIVE BestOfTournaments(_, _, _)
BestOfTournaments(population, winners, i) ==
    IF i = 1 THEN winners[1]
    ELSE LET best == BestOfTournaments(population, winners, i - 1)
         IN  IF FLt(population[winners[i]].Fitness, population[best].Fitness)
             THEN winners[i]
             ELSE best

\* the indices TournamentSelect can return, over all draws of rand.Intn
TournamentSelect(population, tournamentSize) ==
    LET draws == Max(tournamentSize, 1)
        miniWinners == {MiniTournament(population, d, draws) :
                            d \in [1..draws -> 1..Len(population)]}
    IN  {BestOfTournaments(population, w, numTournaments) :
            w \in [1..numTournaments -> miniWinners]}

-----------------------------------------------------------------------------
(* crossover.go *)

blendCrossoverThreshold == (3 * Scale) \div 10
pointCrossoverThreshold == (7 * Scale) \div 10
gaussianCrossoverThreshold == (9 * Scale) \div 10

\* every strategy writes the pixels of both children and reads the parents';
\* wrote holds the classes of the objects written
Children(c1, c2) ==
    [panic |-> FALSE, child1 |-> Drawn(c1), child2 |-> Drawn(c2),
     wrote |-> {WriteClass(c1), WriteClass(c2)}]
CrossoverPanic ==
    [panic |-> TRUE, child1 |-> NilIndividual, child2 |-> NilIndividual, wrote |-> {}]

blendCrossover(parent1, parent2) ==
    Children(CreateBlankCopy(parent1), CreateBlankCopy(parent2))

\* r is the rand.Float64() of the orientation; rand.Intn(n) panics for n <= 0
crossoverPoint(parent1, parent2, r) ==
    LET child1 == CreateBlankCopy(parent1)
        child2 == CreateBlankCopy(parent2)
        isHorizontal == r <= Scale \div 2
        n == IF isHorizontal THEN child1.H - 1 ELSE child1.W - 1
    IN  IF n <= 0 THEN CrossoverPanic ELSE Children(child1, child2)

gaussianPerturbationCrossover(parent1, parent2) ==
    Children(CreateBlankCopy(parent1), CreateBlankCopy(parent2))

\* the patches swapped in the parents themselves: a variant C18 has to exclude
patchCrossoverInPlace(parent1, parent2) ==
    Children(parent1, parent2)

patchCrossover(parent1, parent2) ==
    Children(CreateCopy(parent1), CreateCopy(parent2))

\* r and r2 are the values of the first two calls of rand.Float64()
Crossover(parent1, parent2, r, r2) ==
    IF r < blendCrossoverThreshold THEN blendCrossover(parent1, parent2)
    ELSE IF r < pointCrossoverThreshold THEN crossoverPoint(parent1, parent2, r2)
    ELSE IF r < gaussianCrossoverThreshold THEN gaussianPerturbationCrossover(parent1, parent2)
    ELSE patchCrossover(parent1, parent2)

-----------------------------------------------------------------------------
(* mutation.go: Mutate *)

\* int(logSize*5) with logSize = math.Log10(region) for region > 1 and else 1
RECURSIVE FloorLog10(_)
FloorLog10(n) == IF n < 10 THEN 0 ELSE 1 + FloorLog10(n \div 10)
LogSizeTimes5(region) == IF region > 1 THEN FloorLog10(region ^ 5) ELSE 5

\* the values int(mathutil.Max(divisor, 1)) can take
Divisors(region, rate) ==
    {FTrunc(FMax(FMul(rate, FromInt(between)), FromInt(1))) :
        between \in RandomBetween(50, FloorPowerOfTen(region))}

\* the values regionLimit can take for one polygon; -1 stands for the
\* division by a scaleFactor of 0
RegionLimits(region, rate) ==
    LET maxLimit == region \div 16
    IN  {IF scaleFactor = 0 THEN -1
         ELSE Clamp((region \div divisor) \div scaleFactor, 1, maxLimit) :
            scaleFactor \in RandomBetween(1, LogSizeTimes5(region)),
            divisor \in Divisors(region, rate)}

MutatePanic == [panic |-> TRUE, ind |-> NilIndividual, wrote |-> {}]

\* r is the first rand.Float64(), regionLimit the smallest one of the polygons
Mutate(ind, rate, r, regionLimit) ==
    IF FGt(Fin(r), rate) THEN [panic |-> FALSE, ind |-> ind, wrote |-> {}]
    ELSE LET child == CreateCopy(ind)
         IN  IF 2 * regionLimit <= 0 \/ child.W <= 0 \/ child.H <= 0
             THEN MutatePanic
             ELSE [panic |-> FALSE, ind |-> Drawn(child), wrote |-> {WriteClass(child)}]

MutateOutcomes(ind, rate, limits) ==
    {Mutate(ind, rate, r, rl) : r \in Float64Draws, rl \in limits}

-----------------------------------------------------------------------------
(* algorithm.go: the state of Spec *)

NoGA == [TargetRGBA |-> NilTarget, PopulationSize |-> 0, Generations |-> 0,
         MutationRate |-> Fin(0), TournamentSize |-> 0, Population |-> <<>>]
NoAms == NewAdaptiveMutationStrategy(Fin(0))
NoEv == [population |-> <<>>, newPopulation |-> <<>>, writes |-> <<>>, batchSize |-> 0,
         start |-> 0, end |-> 0, i |-> 0, received |-> 0, capacity |-> 0,
         returned |-> <<>>]
NoRecv == [delivered |-> <<>>, pending |-> <<>>, closed |-> 0]

\* the arguments and the calls of CalculateFitness, TournamentSelect and
\* Resize while another specification runs
NoArgs == [target |-> NilTarget, popSize |-> 0, generations |-> 0,
           mutationRate |-> Fin(0), tournamentSize |-> 0, recvEvery |-> 0, numCPU |-> 1]
NoImage == [W |-> 0, H |-> 0, Pix |-> <<>>]
NoFit == [pc |-> "idle", img |-> NoImage, target |-> NoImage, numGoroutines |-> 0,
          rowsPerGoroutine |-> 0, differences |-> <<>>, running |-> {},
          Fitness |-> PInf]
NoSel == [pc |-> "idle", population |-> <<>>, input |-> <<>>, tournamentSize |-> 0,
          i |-> 0, best |-> 0, drawn |-> {}, count |-> 0]
NoRz == [pc |-> "idle", width |-> 0, height |-> 0, maxDim |-> 0, same |-> FALSE,
         newWidth |-> 0, newHeight |-> 0, Dx |-> 0, Dy |-> 0]
NoCx == [pc |-> "idle"]
NoObj == [pc |-> "idle"]
NoAu == [pc |-> "idle"]
NoMu == [pc |-> "idle"]
NoCache == [pc |-> "idle"]

Init ==
    /\ args \in [target : Targets, popSize : 0..MaxPop, generations : 0..MaxGen,
                 mutationRate : MutationRates, tournamentSize : 0..MaxTournament,
                 recvEvery : 0..MaxEvery, numCPU : 1..MaxCPU]
    /\ args.popSize * args.generations <= MaxWork
    /\ pc = "new"
    /\ ga = NoGA
    /\ err = Nil
    /\ gen = 0
    /\ bestFitness = PInf
    /\ bestIndividual = NilIndividual
    /\ ams = NoAms
    /\ ev = NoEv
    /\ tasks = <<>>
    /\ batchChan = <<>>
    /\ recv = NoRecv
    /\ fit = NoFit
    /\ initialFitness = PInf
    /\ cx = NoCx
    /\ obj = NoObj
    /\ au = NoAu
    /\ mu = NoMu
    /\ cache = NoCache
    /\ sel = NoSel
    /\ rz = NoRz

-----------------------------------------------------------------------------
(* algorithm.go: NewGeneticAlgorithm *)

InvalidParameters(target, popSize, generations, mutationRate, tournamentSize) ==
    \/ target.nil
    \/ popSize <= 0
    \/ generations <= 0
    \/ FLt(mutationRate, Fin(0))
    \/ FGt(mutationRate, FromInt(1))
    \/ tournamentSize <= 0

NewGeneticAlgorithm ==
    /\ pc = "new"
    /\ UNCHANGED <<args, gen, bestFitness, bestIndividual, ams, ev, tasks, batchChan,
                   recv, fit, initialFitness, sel, rz, cx, obj, au, mu, cache>>
    /\ IF InvalidParameters(args.target, args.popSize, args.generations,
                            args.mutationRate, args.tournamentSize)
       THEN /\ err' = "invalid parameters for genetic algorithm"
            /\ pc' = "error"
            /\ ga' = ga
       ELSE IF NewIndividualPanics(args.target.W, args.target.H)
       THEN /\ pc' = "panic"
            /\ UNCHANGED <<ga, err>>
       ELSE \E fs \in [1..args.popSize -> FitnessValues] :
              \E population \in SortedByFitness(
                    [i \in 1..args.popSize |->
                        Scored(NewIndividual(args.target.W, args.target.H), fs[i])]) :
                /\ ga' = [TargetRGBA |-> args.target,
                          PopulationSize |-> args.popSize,
                          Generations |-> args.generations,
                          MutationRate |-> args.mutationRate,
                          TournamentSize |-> args.tournamentSize,
                          Population |-> Publish(population)]
                /\ err' = Nil
                /\ pc' = "ready"

-----------------------------------------------------------------------------
(* algorithm.go: Run *)

RunStart ==
    /\ pc = "ready"
    /\ ams' = NewAdaptiveMutationStrategy(ga.MutationRate)
    /\ bestFitness' = PInf
    /\ bestIndividual' = NilIndividual
    /\ gen' = 0
    /\ initialFitness' = ga.Population[1].Fitness
    /\ pc' = "loop"
    /\ UNCHANGED <<args, ga, err, ev, tasks, batchChan, recv, fit, sel, rz, cx, obj,
                   au, mu, cache>>

\* numCPU*3/2 without the rounding to an even number: a variant C23 has to
\* exclude
BatchSizeNotEven(numCPU, populationSize) ==
    LET batchSize == (numCPU * 3) \div 2
    IN  IF batchSize > populationSize
        THEN populationSize - (populationSize % 2)
        ELSE batchSize

BatchSize(numCPU, populationSize) ==
    LET batchSize == ((numCPU * 3) \div 2) * 2
    IN  IF batchSize > populationSize
        THEN populationSize - (populationSize % 2)
        ELSE batchSize

\* one iteration of Run's loop up to the call of evolvePopulation
RunGeneration ==
    /\ pc = "loop"
    /\ gen < ga.Generations
    /\ \E r \in JitterDraws :
         LET u == Update(ams, ga.Population, gen, ga.Generations, Fin(r))
         IN  /\ ams' = u.ams
             /\ ga' = [ga EXCEPT !.MutationRate = u.rate]
    /\ ev' = [population |-> ga.Population,
              newPopulation |-> [k \in 1..ga.PopulationSize |-> NilIndividual],
              writes |-> [k \in 1..ga.PopulationSize |-> 0],
              batchSize |-> BatchSize(args.numCPU, ga.PopulationSize),
              start |-> 0, end |-> 0, i |-> 0, received |-> 0, capacity |-> 0,
              returned |-> <<>>]
    /\ tasks' = <<>>
    /\ batchChan' = <<>>
    /\ pc' = "batch"
    /\ UNCHANGED <<args, err, gen, bestFitness, bestIndividual, recv, fit, initialFitness, sel, rz, cx, obj,
                   au, mu, cache>>

\* the loop has ended: the deferred close(recv) runs and Run returns
RunReturn ==
    /\ pc = "loop"
    /\ ~(gen < ga.Generations)
    /\ recv' = [recv EXCEPT !.closed = @ + 1]
    /\ pc' = "returned"
    /\ UNCHANGED <<args, ga, err, gen, bestFitness, bestIndividual, ams, ev, tasks,
                   batchChan, fit, initialFitness, sel, rz, cx, obj, au, mu, cache>>

-----------------------------------------------------------------------------
(* algorithm.go: evolvePopulation.  Slots are 0-based as in the code;         *)
(* newPopulation[k + 1] is slot k.                                            *)

BatchEnd(start, batchSize, populationSize) ==
    IF start + batchSize > populationSize
    THEN populationSize - (populationSize % 2)
    ELSE start + batchSize

\* Update called inside evolvePopulation, once for every batch: a variant C35
\* has to exclude
BatchStartUpdating ==
    /\ pc = "batch"
    /\ ev.start < ga.PopulationSize - 1
    /\ LET end == BatchEnd(ev.start, ev.batchSize, ga.PopulationSize)
       IN  ev' = [ev EXCEPT !.end = end, !.i = ev.start, !.received = ev.start,
                            !.capacity = (end - ev.start) \div 2]
    /\ \E r \in JitterDraws :
         LET u == Update(ams, ga.Population, gen, ga.Generations, Fin(r))
         IN  /\ ams' = u.ams
             /\ ga' = [ga EXCEPT !.MutationRate = u.rate]
    /\ batchChan' = <<>>
    /\ tasks' = <<>>
    /\ pc' = "spawn"
    /\ UNCHANGED <<args, err, gen, bestFitness, bestIndividual, recv, fit, initialFitness, sel, rz, cx, obj,
                   au, mu, cache>>

BatchStart ==
    /\ pc = "batch"
    /\ ev.start < ga.PopulationSize - 1
    /\ LET end == BatchEnd(ev.start, ev.batchSize, ga.PopulationSize)
       IN  ev' = [ev EXCEPT !.end = end, !.i = ev.start, !.received = ev.start,
                            !.capacity = (end - ev.start) \div 2]
    /\ batchChan' = <<>>
    /\ tasks' = <<>>
    /\ pc' = "spawn"
    /\ UNCHANGED <<args, ga, err, gen, bestFitness, bestIndividual, ams, recv, fit, initialFitness, sel, rz, cx, obj,
                   au, mu, cache>>

NewTask(idx) ==
    [idx |-> idx, st |-> "started", result |-> <<NilIndividual, NilIndividual>>,
     wrote |-> {}]

\* go func(idx int) {...}(i)
Spawn ==
    /\ pc = "spawn"
    /\ ev.i < ev.end
    /\ tasks' = Append(tasks, NewTask(ev.i))
    /\ ev' = [ev EXCEPT !.i = @ + 2]
    /\ UNCHANGED <<args, pc, ga, err, gen, bestFitness, bestIndividual, ams, batchChan,
                   recv, fit, initialFitness, sel, rz, cx, obj, au, mu, cache>>

SpawnDone ==
    /\ pc = "spawn"
    /\ ~(ev.i < ev.end)
    /\ pc' = "collect"
    /\ UNCHANGED <<args, ga, err, gen, bestFitness, bestIndividual, ams, ev, tasks,
                   batchChan, recv, fit, initialFitness, sel, rz, cx, obj,
                   au, mu, cache>>

\* result := <-batchChan and the two stores
Collect ==
    /\ pc = "collect"
    /\ ev.received < ev.end
    /\ batchChan # <<>>
    /\ LET result == Head(batchChan)
           s0 == result.indices[1] + 1
           s1 == result.indices[2] + 1
       IN  ev' = [ev EXCEPT
                    !.newPopulation = [@ EXCEPT ![s0] = result.individuals[1],
                                                ![s1] = result.individuals[2]],
                    !.writes = [@ EXCEPT ![s0] = @ + 1, ![s1] = @ + 1],
                    !.received = @ + 2]
    /\ batchChan' = Tail(batchChan)
    /\ UNCHANGED <<args, pc, ga, err, gen, bestFitness, bestIndividual, ams, tasks,
                   recv, fit, initialFitness, sel, rz, cx, obj, au, mu, cache>>

\* the collect loop left without waiting for the results: a variant C17 has
\* to exclude
CollectDoneEarly ==
    /\ pc = "collect"
    /\ ev' = [ev EXCEPT !.start = @ + ev.batchSize]
    /\ pc' = "batch"
    /\ UNCHANGED <<args, ga, err, gen, bestFitness, bestIndividual, ams, tasks,
                   batchChan, recv, fit, initialFitness, sel, rz, cx, obj,
                   au, mu, cache>>

CollectDone ==
    /\ pc = "collect"
    /\ ~(ev.received < ev.end)
    /\ ev' = [ev EXCEPT !.start = @ + ev.batchSize]
    /\ pc' = "batch"
    /\ UNCHANGED <<args, ga, err, gen, bestFitness, bestIndividual, ams, tasks,
                   batchChan, recv, fit, initialFitness, sel, rz, cx, obj,
                   au, mu, cache>>

\* the odd slot left empty: a variant C1 has to exclude
WithoutOddSlot(newPopulation, writes, population, populationSize) ==
    [newPopulation |-> newPopulation, writes |-> writes]

\* the odd slot filled with a copy of the last individual: a variant C12 has
\* to exclude
WithOddSlotOfLast(newPopulation, writes, population, populationSize) ==
    IF populationSize % 2 # 0
    THEN [newPopulation |-> [newPopulation EXCEPT
                                ![populationSize] = CreateCopy(population[populationSize])],
          writes |-> [writes EXCEPT ![populationSize] = @ + 1]]
    ELSE [newPopulation |-> newPopulation, writes |-> writes]

\* the odd slot
WithOddSlot(newPopulation, writes, population, populationSize) ==
    IF populationSize % 2 # 0
    THEN [newPopulation |-> [newPopulation EXCEPT ![populationSize] = CreateCopy(population[1])],
          writes |-> [writes EXCEPT ![populationSize] = @ + 1]]
    ELSE [newPopulation |-> newPopulation, writes |-> writes]

\* the end of evolvePopulation: the odd slot, the sort and the return; the sort
\* reads the Fitness of every slot and panics on a nil one
EvolveReturn ==
    /\ pc = "batch"
    /\ ~(ev.start < ga.PopulationSize - 1)
    /\ LET filled == WithOddSlot(ev.newPopulation, ev.writes, ev.population,
                                 ga.PopulationSize)
       IN  IF \E k \in 1..Len(filled.newPopulation) :
                   filled.newPopulation[k] = NilIndividual
           THEN /\ pc' = "panic"
                /\ ev' = [ev EXCEPT !.newPopulation = filled.newPopulation,
                                    !.writes = filled.writes]
           ELSE \E sorted \in SortedByFitness(filled.newPopulation) :
                   /\ ev' = [ev EXCEPT !.newPopulation = filled.newPopulation,
                                       !.writes = filled.writes,
                                       !.returned = sorted]
                   /\ pc' = "evolved"
    /\ UNCHANGED <<args, ga, err, gen, bestFitness, bestIndividual, ams, tasks,
                   batchChan, recv, fit, initialFitness, sel, rz, cx, obj,
                   au, mu, cache>>

-----------------------------------------------------------------------------
(* algorithm.go: the pair task, go func(idx int) of evolvePopulation.        *)
(* tasks[k] is the k-th goroutine of the batch.  Until its send a task only  *)
(* reads the input population and the target, so its body is one step.       *)

Running == pc \in {"spawn", "collect"}

CrossoverOutcomes(parent1, parent2) ==
    {Crossover(parent1, parent2, r, r2) : r \in Float64Draws, r2 \in Float64Draws}

PairPanic ==
    [panic |-> TRUE, individuals |-> <<NilIndividual, NilIndividual>>, wrote |-> {}]

\* the two children alone, in order: a variant C13 has to exclude
BestChildren(child1, child2, parent1, parent2) ==
    {[panic |-> FALSE, individuals |-> <<CreateCopy(sorted[1]), CreateCopy(sorted[2])>>] :
        sorted \in SortedByFitness(<<child1, child2>>)}

\* the best two of the four candidates, copied: result[0] and result[1]
BestTwo(child1, child2, parent1, parent2) ==
    {[panic |-> FALSE, individuals |-> <<CreateCopy(sorted[1]), CreateCopy(sorted[2])>>] :
        sorted \in SortedByFitness(<<child1, child2, parent1, parent2>>)}

\* the body of the task for the parents selected: Crossover, Mutate twice,
\* CalculateFitness twice, the sort of the candidates and the two copies.
\* CalculateFitness writes the Fitness of its receiver and reads the target;
\* the sort permutes the task's own array and CreateCopy reads its receiver.
Breed(parent1, parent2, rate) ==
    LET limits == RegionLimits(parent1.W * parent1.H, rate)
    IN  UNION {
          IF co.panic THEN {PairPanic}
          ELSE UNION {
            IF m1.panic THEN {PairPanic}
            ELSE UNION {
              IF m2.panic THEN {PairPanic}
              ELSE UNION {
                {[panic |-> FALSE, individuals |-> b.individuals,
                  wrote |-> co.wrote \cup m1.wrote \cup m2.wrote
                              \cup {WriteClass(m1.ind), WriteClass(m2.ind)}] :
                    b \in BestTwo(Scored(m1.ind, f1), Scored(m2.ind, f2), parent1, parent2)} :
                f1 \in FitnessValues, f2 \in FitnessValues} :
              m2 \in MutateOutcomes(co.child2, rate, limits)} :
            m1 \in MutateOutcomes(co.child1, rate, limits)} :
          co \in CrossoverOutcomes(parent1, parent2)}

\* what a pair task can compute, over the draws of rand
PairOutcomes(population, tournamentSize, rate) ==
    LET winners == TournamentSelect(population, tournamentSize)
    IN  UNION {Breed(pp[1], pp[2], rate) :
                 pp \in {<<population[p1], population[p2]>> : p1 \in winners, p2 \in winners}}

\* a panic in a goroutine ends the program
TaskRun(k) ==
    /\ Running
    /\ tasks[k].st = "started"
    /\ \E o \in PairOutcomes(ev.population, ga.TournamentSize, ga.MutationRate) :
         IF o.panic
         THEN pc' = "panic" /\ tasks' = tasks
         ELSE /\ tasks' = [tasks EXCEPT ![k] = [@ EXCEPT !.st = "computed",
                                                         !.result = o.individuals,
                                                         !.wrote = o.wrote]]
              /\ pc' = pc
    /\ UNCHANGED <<args, ga, err, gen, bestFitness, bestIndividual, ams, ev,
                   batchChan, recv, fit, initialFitness, sel, rz, cx, obj,
                   au, mu, cache>>

\* the result sent for the next slot pair in the order of completion: a
\* variant C22 has to exclude
TaskSendInOrder(k) ==
    /\ Running
    /\ tasks[k].st = "computed"
    /\ Len(batchChan) < ev.capacity
    /\ LET idx == ev.received + 2 * Len(batchChan)
       IN  batchChan' = Append(batchChan,
                               [indices |-> <<idx, idx + 1>>,
                                individuals |-> tasks[k].result])
    /\ tasks' = [tasks EXCEPT ![k] = [@ EXCEPT !.st = "done"]]
    /\ UNCHANGED <<args, pc, ga, err, gen, bestFitness, bestIndividual, ams, ev,
                   recv, fit, initialFitness, sel, rz, cx, obj, au, mu, cache>>

\* batchChan <- {[2]int{idx, idx + 1}, result}
TaskSend(k) ==
    /\ Running
    /\ tasks[k].st = "computed"
    /\ Len(batchChan) < ev.capacity
    /\ batchChan' = Append(batchChan,
                           [indices |-> <<tasks[k].idx, tasks[k].idx + 1>>,
                            individuals |-> tasks[k].result])
    /\ tasks' = [tasks EXCEPT ![k] = [@ EXCEPT !.st = "done"]]
    /\ UNCHANGED <<args, pc, ga, err, gen, bestFitness, bestIndividual, ams, ev,
                   recv, fit, initialFitness, sel, rz, cx, obj, au, mu, cache>>

-----------------------------------------------------------------------------
(* algorithm.go: Run after evolvePopulation has returned *)

\* the interval alone, without the final generation: a variant C6 has to exclude
PublishesOnInterval(g, recvEvery, generations) == g % recvEvery = 0

\* whether Run publishes generation g; the caller guarantees recvEvery # 0
Publishes(g, recvEvery, generations) == g % recvEvery = 0 \/ g = generations - 1

ImageResult(g, best, fitness, rate) ==
    [Generation |-> g, Img |-> <<best.W, best.H>>, Fitness |-> fitness,
     MutationRate |-> rate]

RunAfterEvolve ==
    /\ pc = "evolved"
    /\ LET newPopulation == ev.returned
           currentBest == newPopulation[1]
           improved == FLt(currentBest.Fitness, bestFitness)
           bf == IF improved THEN currentBest.Fitness ELSE bestFitness
           bi == IF improved THEN CreateCopy(currentBest) ELSE bestIndividual
       IN  /\ ga' = [ga EXCEPT !.Population = Publish(newPopulation)]
           /\ bestFitness' = bf
           /\ bestIndividual' = bi
           /\ IF args.recvEvery = 0
              THEN \* gen%recvEvery divides by zero; the deferred close runs
                   /\ recv' = [recv EXCEPT !.closed = @ + 1]
                   /\ pc' = "panic"
                   /\ gen' = gen
              ELSE IF Publishes(gen, args.recvEvery, ga.Generations)
              THEN /\ recv' = [recv EXCEPT !.pending =
                                  <<ImageResult(gen, bi, bf, ga.MutationRate)>>]
                   /\ pc' = "send"
                   /\ gen' = gen
              ELSE /\ recv' = recv
                   /\ pc' = "loop"
                   /\ gen' = gen + 1
    /\ UNCHANGED <<args, err, ams, ev, tasks, batchChan, fit, initialFitness, sel, rz, cx, obj,
                   au, mu, cache>>

\* recv is unbuffered: the send completes when the consumer receives
Deliver ==
    /\ pc = "send"
    /\ recv.closed = 0
    /\ recv' = [recv EXCEPT !.delivered = Append(@, recv.pending[1]), !.pending = <<>>]
    /\ gen' = gen + 1
    /\ pc' = "loop"
    /\ UNCHANGED <<args, ga, err, bestFitness, bestIndividual, ams, ev, tasks,
                   batchChan, fit, initialFitness, sel, rz, cx, obj, au, mu, cache>>

Next ==
    \/ NewGeneticAlgorithm
    \/ RunStart
    \/ RunGeneration
    \/ RunReturn
    \/ BatchStart
    \/ Spawn
    \/ SpawnDone
    \/ \E k \in 1..Len(tasks) : TaskRun(k)
    \/ \E k \in 1..Len(tasks) : TaskSend(k)
    \/ Collect
    \/ CollectDone
    \/ EvolveReturn
    \/ RunAfterEvolve
    \/ Deliver

Spec == Init /\ [][Next]_vars

-----------------------------------------------------------------------------
(* The claims on Spec *)

\* C1: after every call of evolvePopulation, for every population size N >= 1
\* and every CPU count, the returned population has N entries and every slot
\* 0..N-1 has been assigned an individual exactly once: no slot is written
\* twice, and when the batches are over the odd slot completes the slots, none
\* left nil.
C1_EverySlotAssignedOnce ==
    /\ \A k \in 1..Len(ev.writes) : ev.writes[k] <= 1
    /\ (pc = "batch" /\ ~(ev.start < ga.PopulationSize - 1)) =>
          LET filled == WithOddSlot(ev.newPopulation, ev.writes, ev.population,
                                    ga.PopulationSize)
          IN  \A k \in 1..ga.PopulationSize :
                 /\ filled.writes[k] = 1
                 /\ filled.newPopulation[k] # NilIndividual
    /\ pc = "evolved" =>
          /\ Len(ev.returned) = ga.PopulationSize
          /\ \A k \in 1..ga.PopulationSize :
                 /\ ev.writes[k] = 1
                 /\ ev.newPopulation[k] # NilIndividual
                 /\ ev.returned[k] # NilIndividual

\* the second call of evolvePopulation has returned for an odd population
C1_OddPopulationEvolved ==
    pc = "evolved" /\ ga.PopulationSize = 3 /\ gen = 1 /\ ev.writes = <<1, 1, 1>>

\* C2: the population the algorithm holds is sorted ascending by fitness after
\* construction and after every generation of Run, and Population[0] has a
\* minimum fitness.
C2_PopulationSorted ==
    LET population == ga.Population
    IN  /\ \A i \in 1..(Len(population) - 1) :
               FLe(population[i].Fitness, population[i + 1].Fitness)
        /\ \A i \in 1..Len(population) :
               FLe(population[1].Fitness, population[i].Fitness)
        /\ pc \in {"ready", "loop", "returned"} => Len(population) = ga.PopulationSize
        /\ pc = "evolved" =>
               \A i \in 1..(Len(ev.returned) - 1) :
                   FLe(ev.returned[i].Fitness, ev.returned[i + 1].Fitness)

\* a generation has been installed and the population holds two fitness values
C2_MixedPopulationAfterGeneration ==
    /\ pc = "loop"
    /\ gen >= 1
    /\ FLt(ga.Population[1].Fitness, ga.Population[Len(ga.Population)].Fitness)

\* C3: when Run returns, the fitness of the individual it returns is
\* Population[0].Fitness of the final population.
C3_ReturnedIsPopulationHead ==
    pc = "returned" =>
        /\ bestIndividual.Fitness = ga.Population[1].Fitness
        /\ bestFitness = ga.Population[1].Fitness

\* C4: NewGeneticAlgorithm returns an error and no algorithm when the
\* tournament size is greater than the population size.
C4_TournamentAboveSizeRejected ==
    (pc # "new" /\ args.tournamentSize > args.popSize) =>
        (pc = "error" /\ err # Nil /\ ga = NoGA)

\* C5: for every configuration NewGeneticAlgorithm accepts and every reporting
\* interval, Run fails nowhere and returns after exactly Generations
\* generation steps with a result.
C5_RunIsTotal ==
    /\ ga # NoGA => pc # "panic"
    /\ pc = "returned" => (gen = ga.Generations /\ bestIndividual # NilIndividual)

\* the generations g of 0..n-1 with g mod k = 0 or g = G-1, ascending
GenerationsToPublish(k, G, n) ==
    SelectSeq([i \in 1..n |-> i - 1], LAMBDA g : g % k = 0 \/ g = G - 1)

\* C6: with a reporting interval k >= 1 and G generations, a record is
\* published for generation g iff g mod k = 0 or g = G-1, once for each such g
\* and in increasing order: the records delivered are those of the qualifying
\* generations Run has completed, and the record being sent is the one of the
\* current, qualifying generation.
C6_RecordsOfQualifyingGenerations ==
    (args.recvEvery >= 1 /\ ga # NoGA) =>
        /\ [i \in 1..Len(recv.delivered) |-> recv.delivered[i].Generation]
              = GenerationsToPublish(args.recvEvery, ga.Generations, gen)
        /\ \A i \in 1..Len(recv.pending) :
              /\ pc = "send"
              /\ recv.pending[i].Generation = gen
              /\ (gen % args.recvEvery = 0 \/ gen = ga.Generations - 1)
        /\ pc = "returned" => gen = ga.Generations

\* Run has returned after three generations reported every second one
C6_SkippedGeneration ==
    /\ pc = "returned"
    /\ args.recvEvery = 2
    /\ ga.Generations = 3
    /\ Len(recv.delivered) = 2
    /\ recv.delivered[2].Generation = 2

\* C7: the sink is closed exactly once, only by Run's return and only after
\* the record of the final generation has been delivered; no record is sent
\* once it is closed; and a Run that has started does not stop short of its
\* return.
C7_ClosedOnceAfterFinalRecord ==
    /\ recv.closed <= 1
    /\ recv.closed = 1 =>
          /\ pc = "returned"
          /\ recv.pending = <<>>
          /\ Len(recv.delivered) >= 1
          /\ recv.delivered[Len(recv.delivered)].Generation = ga.Generations - 1
    /\ ga # NoGA => pc # "panic"

DimensionsOfTarget(ind) == ind.W = ga.TargetRGBA.W /\ ind.H = ga.TargetRGBA.H

\* C9: every individual of the population, and both children Crossover
\* returns under each strategy, have the width and the height of the target
\* for the whole run; so have the individuals the tasks hand over.
C9_DimensionsKept ==
    ga # NoGA =>
        /\ \A i \in 1..Len(ga.Population) : DimensionsOfTarget(ga.Population[i])
        /\ \A i \in 1..Len(ev.returned) : DimensionsOfTarget(ev.returned[i])
        /\ \A k \in 1..Len(ev.newPopulation) :
              ev.newPopulation[k] # NilIndividual => DimensionsOfTarget(ev.newPopulation[k])
        /\ \A k \in 1..Len(tasks) :
              tasks[k].st # "started" =>
                  (DimensionsOfTarget(tasks[k].result[1]) /\ DimensionsOfTarget(tasks[k].result[2]))
        /\ \A k \in 1..Len(batchChan) :
              /\ DimensionsOfTarget(batchChan[k].individuals[1])
              /\ DimensionsOfTarget(batchChan[k].individuals[2])
        /\ bestIndividual # NilIndividual => DimensionsOfTarget(bestIndividual)
        /\ \A i, j \in 1..Len(ga.Population) : \A r, r2 \in Float64Draws :
              LET c == Crossover(ga.Population[i], ga.Population[j], r, r2)
              IN  ~c.panic => (DimensionsOfTarget(c.child1) /\ DimensionsOfTarget(c.child2))

\* a generation bred by pair tasks has been installed for a target seven
\* times as high as wide
C9_TallTargetEvolved ==
    /\ pc = "loop"
    /\ gen >= 1
    /\ ga.PopulationSize >= 2
    /\ ga.TargetRGBA.W = 1
    /\ ga.TargetRGBA.H = 7
    /\ bestIndividual # NilIndividual

\* C10: each value Update returns lies within [minRate, maxRate], with
\* minRate = max(0.01, 0.2*base) <= maxRate = min(0.4, 5*base), and is no NaN.
C10_RateWithinBounds ==
    pc \in {"batch", "spawn", "collect", "evolved", "send"} =>
        /\ ams.minRate = FMax(Fin(Scale \div 100), FMul(Fin(Scale \div 5), args.mutationRate))
        /\ ams.maxRate = FMin(Fin((4 * Scale) \div 10), FMul(FromInt(5), args.mutationRate))
        /\ FLe(ams.minRate, ams.maxRate)
        /\ ~IsNaN(ga.MutationRate)
        /\ FLe(ams.minRate, ga.MutationRate)
        /\ FLe(ga.MutationRate, ams.maxRate)


\* C11: after Run, the fitness of the returned individual is strictly lower
\* than the best fitness of the initial population.
C11_ReturnedBelowInitialBest ==
    pc = "returned" =>
        (FLt(bestFitness, initialFitness) /\ FLt(bestIndividual.Fitness, initialFitness))

\* C12: for an odd population size the slot no pair task covers is filled
\* with a copy of population[0] of the input population, and the best fitness
\* of the new population is not worse than the one of the input population.
C12_OddSlotIsCopyOfBest ==
    ga.PopulationSize % 2 = 1 =>
        LET n == ga.PopulationSize
            input == ev.population
        IN  /\ pc \in {"batch", "spawn", "collect"} =>
                  (ev.writes[n] = 0 /\ ev.newPopulation[n] = NilIndividual)
            /\ (pc = "batch" /\ ~(ev.start < n - 1)) =>
                  LET filled == WithOddSlot(ev.newPopulation, ev.writes, input, n)
                  IN  /\ filled.newPopulation[n].Fitness = input[1].Fitness
                      /\ filled.newPopulation[n].W = input[1].W
                      /\ filled.newPopulation[n].H = input[1].H
                      /\ ~filled.newPopulation[n].shared
            /\ pc = "evolved" =>
                  /\ ev.writes[n] = 1
                  /\ ev.newPopulation[n].Fitness = input[1].Fitness
                  /\ FLe(ev.returned[1].Fitness, input[1].Fitness)

\* an odd population of two fitness values has been evolved
C12_OddMixedPopulationEvolved ==
    /\ pc = "evolved"
    /\ ga.PopulationSize = 3
    /\ FLt(ev.population[1].Fitness, ev.population[3].Fitness)

\* out holds the two lowest of the fitness values cand, in order
TwoLowest(out, cand) ==
    /\ FLe(out[1], out[2])
    /\ \E a, b \in 1..Len(cand) :
          /\ a # b
          /\ cand[a] = out[1]
          /\ cand[b] = out[2]
          /\ \A c \in (1..Len(cand)) \ {a, b} : FLe(out[2], cand[c])

\* C13: in every pair task the two individuals handed to the output slots
\* are the two lowest-fitness candidates among child1, child2, parent1 and
\* parent2, the children scored first, so the better output is not worse than
\* the better parent.  Stated when a batch is about to start its tasks, for
\* all parents the tasks can select and all scores the children can get.
C13_BestTwoOfFour ==
    (pc = "spawn" /\ tasks = <<>>) =>
        \A i, j \in 1..Len(ev.population) :
            LET parent1 == ev.population[i]
                parent2 == ev.population[j]
            IN  /\ \A f1, f2 \in FitnessValues :
                      \A b \in BestTwo(Scored(CreateCopy(parent1), f1),
                                       Scored(CreateCopy(parent2), f2), parent1, parent2) :
                          TwoLowest(<<b.individuals[1].Fitness, b.individuals[2].Fitness>>,
                                    <<f1, f2, parent1.Fitness, parent2.Fitness>>)
                /\ \A o \in Breed(parent1, parent2, ga.MutationRate) :
                      ~o.panic =>
                          /\ FLe(o.individuals[1].Fitness, parent1.Fitness)
                          /\ FLe(o.individuals[1].Fitness, parent2.Fitness)
                          /\ FLe(o.individuals[1].Fitness, o.individuals[2].Fitness)

\* a batch of a population of two fitness values is about to start its tasks
C13_BatchOfMixedParents ==
    /\ pc = "spawn"
    /\ tasks = <<>>
    /\ Len(ev.population) >= 2
    /\ FLt(ev.population[1].Fitness, ev.population[2].Fitness)

\* C17: no task of a batch is started before every task of the batch before
\* has delivered its result and the result has been stored, and the tasks in
\* flight are at most the pairs of one batch.
C17_BatchBarrier ==
    /\ pc = "batch" =>
          /\ \A k \in 1..Len(tasks) : tasks[k].st = "done"
          /\ batchChan = <<>>
          /\ \A s \in 1..Min(ev.start, Len(ev.writes) - (Len(ev.writes) % 2)) :
                ev.writes[s] = 1
    /\ pc \in {"spawn", "collect"} =>
          /\ \A s \in 1..ev.start : ev.writes[s] = 1 /\ ev.newPopulation[s] # NilIndividual
          /\ \A k \in 1..Len(tasks) : tasks[k].idx >= ev.start /\ tasks[k].idx + 1 < ev.end
    /\ Len(tasks) <= ev.batchSize \div 2
    /\ Cardinality({k \in 1..Len(tasks) : tasks[k].st # "done"}) <= ev.batchSize \div 2

\* the task of a second batch has been started
C17_SecondBatchStarted ==
    /\ pc = "spawn"
    /\ ev.start = 2
    /\ Len(tasks) = 1
    /\ tasks[1].idx = 2

\* C18: while the pair tasks run, every write of a task goes to an object the
\* task created itself: none to an individual of the input population, which
\* stays as it was handed over, and none to the target.
C18_TasksWriteOwnObjects ==
    /\ \A k \in 1..Len(tasks) :
          /\ tasks[k].wrote \subseteq {"own"}
          /\ tasks[k].st # "started" => tasks[k].wrote = {"own"}
    /\ pc \in {"batch", "spawn", "collect", "evolved"} =>
          /\ ev.population = ga.Population
          /\ \A i \in 1..Len(ev.population) : ev.population[i].shared

\* two tasks of one batch have both run
C18_TwoTasksComputed ==
    /\ pc \in {"spawn", "collect"}
    /\ Len(tasks) = 2
    /\ tasks[1].st = "computed"
    /\ tasks[2].st = "computed"

\* C19: from one generation to the next the best fitness of the population,
\* Population[0].Fitness, never gets worse, for every population size.
C19_BestNeverWorse ==
    pc = "evolved" => FLe(ev.returned[1].Fitness, ev.population[1].Fitness)

\* C20: every individual of the population has been scored: its fitness is
\* finite and is the distance of the pixels it holds, after construction and
\* after every generation.
C20_PopulationScored ==
    /\ \A i \in 1..Len(ga.Population) :
          /\ IsFin(ga.Population[i].Fitness)
          /\ FGe(ga.Population[i].Fitness, Fin(0))
          /\ ga.Population[i].scored
    /\ pc = "evolved" =>
          \A i \in 1..Len(ev.returned) :
              IsFin(ev.returned[i].Fitness) /\ ev.returned[i].scored

\* a generation bred by pair tasks has been installed
C20_GenerationInstalled ==
    /\ pc = "loop"
    /\ gen >= 1
    /\ ga.PopulationSize >= 2


\* the results of task k in the channel, and whether its result is stored
InChannel(k) ==
    Cardinality({m \in 1..Len(batchChan) :
                    batchChan[m].indices = <<tasks[k].idx, tasks[k].idx + 1>>})
Stored(k) == ev.writes[tasks[k].idx + 1]

\* C22: within a batch each pair task sends one result and the send never
\* blocks, the channel's capacity being the number of tasks of the batch; the
\* orchestrator receives one result per task and stores it in the slot pair
\* (idx, idx+1) of the task whatever the order of completion; the collect loop
\* never waits for a result no task will send, and no task is running when the
\* batch has ended.
C22_OneResultPerTask ==
    /\ Len(batchChan) <= ev.capacity
    /\ Running =>
          /\ ev.capacity = (ev.end - ev.start) \div 2
          /\ Len(tasks) <= ev.capacity
          /\ ev.received - ev.start = 2 * Cardinality({k \in 1..Len(tasks) : Stored(k) = 1})
    /\ pc = "collect" =>
          /\ Len(tasks) = ev.capacity
          /\ ev.received < ev.end =>
                (batchChan # <<>> \/ \E k \in 1..Len(tasks) : tasks[k].st # "done")
    /\ \A k \in 1..Len(tasks) :
          /\ tasks[k].st = "computed" => Len(batchChan) < ev.capacity
          /\ InChannel(k) + Stored(k) = (IF tasks[k].st = "done" THEN 1 ELSE 0)
          /\ ev.writes[tasks[k].idx + 2] = Stored(k)
          /\ Stored(k) = 1 =>
                /\ ev.newPopulation[tasks[k].idx + 1] = tasks[k].result[1]
                /\ ev.newPopulation[tasks[k].idx + 2] = tasks[k].result[2]
          /\ \A l \in 1..Len(tasks) : l # k => tasks[l].idx # tasks[k].idx
    /\ pc \in {"batch", "evolved"} =>
          /\ batchChan = <<>>
          /\ \A k \in 1..Len(tasks) : tasks[k].st = "done" /\ Stored(k) = 1

\* the result of the second task of a batch is stored while the first task's
\* is still in the channel
C22_StoredOutOfOrder ==
    /\ pc = "collect"
    /\ Len(tasks) = 2
    /\ Stored(2) = 1
    /\ Stored(1) = 0
    /\ InChannel(1) = 1
    /\ tasks[1].result # tasks[2].result

\* C23: evolvePopulation terminates for every population size N >= 1 and
\* every CPU count: while the loop condition holds the batch size is an even
\* number of at least 2, so every iteration has a non-empty batch and moves
\* start forward, and the last batch ends at N - (N mod 2); for N = 1 the
\* batch size is 0 and the loop is not entered.
C23_BatchLoopProgress ==
    pc \in {"batch", "spawn", "collect", "evolved"} =>
        LET n == ga.PopulationSize
        IN  /\ ev.batchSize % 2 = 0
            /\ ev.batchSize = 0 <=> n = 1
            /\ ev.start % 2 = 0
            /\ ev.start < n - 1 => ev.batchSize >= 2
            /\ pc \in {"spawn", "collect"} =>
                  /\ ev.start < n - 1
                  /\ ev.end - ev.start >= 2
                  /\ (ev.end - ev.start) % 2 = 0
                  /\ ev.end <= n - (n % 2)
                  /\ ev.end = Min(ev.start + ev.batchSize, n - (n % 2))
            /\ ((pc = "batch" /\ ~(ev.start < n - 1)) \/ pc = "evolved") =>
                  /\ ev.end = n - (n % 2)
                  /\ ev.start >= ev.end
                  /\ ev.start < ev.end + Max(ev.batchSize, 1)

\* the loop over a population of four in batches of one pair has ended
C23_TwoBatchesDone ==
    /\ pc = "batch"
    /\ ga.PopulationSize = 4
    /\ ev.batchSize = 2
    /\ ev.start = 4
    /\ ev.end = 4

\* C30: for every image area >= 1 and every mutation rate the jitter radius
\* regionLimit of Mutate is at least 1 and at most imageArea / 16.  Stated
\* when a batch is about to start its tasks, for the area of the target and
\* the rate of the generation.
C30_RegionLimitWithinBounds ==
    (pc = "spawn" /\ tasks = <<>>) =>
        LET region == ga.TargetRGBA.W * ga.TargetRGBA.H
        IN  region >= 1 =>
                \A regionLimit \in RegionLimits(region, ga.MutationRate) :
                    regionLimit >= 1 /\ regionLimit <= region \div 16

-----------------------------------------------------------------------------
(* algorithm.go: NewGeneticAlgorithm alone (CtorSpec), with the mutation rate
   1 among the arguments. *)

CtorRates == MutationRates \cup {FromInt(1)}

CtorInit ==
    /\ args \in [target : Targets, popSize : 0..MaxPop, generations : 0..MaxGen,
                 mutationRate : CtorRates, tournamentSize : 0..MaxTournament,
                 recvEvery : {1}, numCPU : {1}]
    /\ pc = "new"
    /\ ga = NoGA
    /\ err = Nil
    /\ gen = 0
    /\ bestFitness = PInf
    /\ bestIndividual = NilIndividual
    /\ ams = NoAms
    /\ ev = NoEv
    /\ tasks = <<>>
    /\ batchChan = <<>>
    /\ recv = NoRecv
    /\ fit = NoFit
    /\ initialFitness = PInf
    /\ cx = NoCx
    /\ obj = NoObj
    /\ au = NoAu
    /\ mu = NoMu
    /\ cache = NoCache
    /\ sel = NoSel
    /\ rz = NoRz

CtorNext == NewGeneticAlgorithm

CtorSpec == CtorInit /\ [][CtorNext]_vars

\* C14: NewGeneticAlgorithm returns an error and no algorithm when the target
\* is nil, the population size or the generation count is <= 0, the mutation
\* rate is outside [0, 1] or the tournament size is <= 0; for all other
\* arguments, the rates 0 and 1 included, it returns a population of exactly
\* popSize scored individuals.
C14_ConstructorContract ==
    pc # "new" =>
        IF \/ args.target.nil
           \/ args.popSize <= 0
           \/ args.generations <= 0
           \/ ~(FGe(args.mutationRate, FromInt(0)) /\ FLe(args.mutationRate, FromInt(1)))
           \/ args.tournamentSize <= 0
        THEN pc = "error" /\ err # Nil /\ ga = NoGA
        ELSE /\ pc = "ready"
             /\ err = Nil
             /\ Len(ga.Population) = args.popSize
             /\ \A i \in 1..Len(ga.Population) :
                   ga.Population[i].scored /\ IsFin(ga.Population[i].Fitness)

-----------------------------------------------------------------------------
(* selection.go: one call of TournamentSelect, a mini-tournament a step
   (SelSpec).  sel.best is the index of best, 0 for nil; sel.drawn and
   sel.count record the indices rand.Intn has returned and their number. *)

MaxSelPop == 3         \* len(population) in 1..MaxSelPop
MaxSelFitness == 2     \* fitness values 0..MaxSelFitness

SelPopulations ==
    UNION {[1..n -> {Scored(NewIndividual(4, 4), FromInt(f)) : f \in 0..MaxSelFitness}] :
              n \in 1..MaxSelPop}

SelInit ==
    /\ \E population \in SelPopulations, tournamentSize \in 0..MaxTournament :
          sel = [pc |-> "loop", population |-> population, input |-> population,
                 tournamentSize |-> tournamentSize, i |-> 0, best |-> 0,
                 drawn |-> {}, count |-> 0]
    /\ args = NoArgs
    /\ pc = "idle"
    /\ ga = NoGA
    /\ err = Nil
    /\ gen = 0
    /\ bestFitness = PInf
    /\ bestIndividual = NilIndividual
    /\ ams = NoAms
    /\ ev = NoEv
    /\ tasks = <<>>
    /\ batchChan = <<>>
    /\ recv = NoRecv
    /\ fit = NoFit
    /\ initialFitness = PInf
    /\ cx = NoCx
    /\ obj = NoObj
    /\ au = NoAu
    /\ mu = NoMu
    /\ cache = NoCache
    /\ rz = NoRz

\* one iteration of the outer loop: the draws of a mini-tournament, then the
\* comparison of its winner with best
SelTournament ==
    /\ sel.pc = "loop"
    /\ sel.i < numTournaments
    /\ LET participants == Max(sel.tournamentSize, 1)
       IN  \E draws \in [1..participants -> 1..Len(sel.population)] :
              LET tournamentBest == MiniTournament(sel.population, draws, participants)
              IN  sel' = [sel EXCEPT
                     !.best = IF sel.best = 0
                                  \/ FLt(sel.population[tournamentBest].Fitness,
                                         sel.population[sel.best].Fitness)
                              THEN tournamentBest
                              ELSE sel.best,
                     !.drawn = @ \cup {draws[j] : j \in 1..participants},
                     !.count = @ + participants,
                     !.i = @ + 1]
    /\ UNCHANGED <<args, pc, ga, err, gen, bestFitness, bestIndividual, ams, ev, tasks,
                   batchChan, recv, fit, initialFitness, rz, cx, obj, au, mu, cache>>

SelReturn ==
    /\ sel.pc = "loop"
    /\ ~(sel.i < numTournaments)
    /\ sel' = [sel EXCEPT !.pc = "returned"]
    /\ UNCHANGED <<args, pc, ga, err, gen, bestFitness, bestIndividual, ams, ev, tasks,
                   batchChan, recv, fit, initialFitness, rz, cx, obj, au, mu, cache>>

SelNext == SelTournament \/ SelReturn

SelSpec == SelInit /\ [][SelNext]_vars

\* C15: TournamentSelect on a non-empty population returns a member of the
\* population, never nil, whose fitness is the minimum over all individuals
\* drawn, 4 x tournamentSize of them, and leaves the population as it was.
C15_WinnerIsBestDrawn ==
    /\ sel.population = sel.input
    /\ sel.pc = "returned" =>
          /\ sel.best \in 1..Len(sel.population)
          /\ sel.best \in sel.drawn
          /\ \A d \in sel.drawn :
                FLe(sel.population[sel.best].Fitness, sel.population[d].Fitness)
          /\ sel.tournamentSize >= 1 => sel.count = numTournaments * sel.tournamentSize

\* a call has returned in which every individual of a population of three
\* fitness values was drawn
C15_AllDrawn ==
    /\ sel.pc = "returned"
    /\ sel.tournamentSize = 2
    /\ sel.drawn = {1, 2, 3}
    /\ {sel.population[d].Fitness : d \in sel.drawn} = {FromInt(f) : f \in 0..MaxSelFitness}
    /\ sel.population[sel.best].Fitness = FromInt(0)

-----------------------------------------------------------------------------
(* imageio/resize.go: one call of Resize (ResizeSpec).  rz holds the bounds of
   img, maxDim, whether the image returned is img itself, and the bounds Dx,
   Dy of the image returned. *)

MaxSide == 5           \* width, height and maxDim in 0..MaxSide

\* both dimensions set to maxDim: a variant C16 has to exclude
NewDimensionsSquare(width, height, maxDim) ==
    [newWidth |-> maxDim, newHeight |-> maxDim]

\* newWidth and newHeight, with int(float64(a) * float64(maxDim) / float64(b))
NewDimensions(width, height, maxDim) ==
    IF width > height
    THEN [newWidth |-> maxDim,
          newHeight |-> FTrunc(FDiv(FMul(FromInt(height), FromInt(maxDim)),
                                    FromInt(width)))]
    ELSE [newWidth |-> FTrunc(FDiv(FMul(FromInt(width), FromInt(maxDim)),
                                   FromInt(height))),
          newHeight |-> maxDim]

\* Dx or Dy of image.Rect(0, 0, ...): Rect swaps the ends of a reversed side
RectSide(x0, x1) == IF x0 > x1 THEN x0 - x1 ELSE x1 - x0

ResizeInit ==
    /\ \E width, height, maxDim \in 0..MaxSide :
          rz = [pc |-> "call", width |-> width, height |-> height, maxDim |-> maxDim,
                same |-> FALSE, newWidth |-> 0, newHeight |-> 0, Dx |-> 0, Dy |-> 0]
    /\ args = NoArgs
    /\ pc = "idle"
    /\ ga = NoGA
    /\ err = Nil
    /\ gen = 0
    /\ bestFitness = PInf
    /\ bestIndividual = NilIndividual
    /\ ams = NoAms
    /\ ev = NoEv
    /\ tasks = <<>>
    /\ batchChan = <<>>
    /\ recv = NoRecv
    /\ fit = NoFit
    /\ initialFitness = PInf
    /\ cx = NoCx
    /\ obj = NoObj
    /\ au = NoAu
    /\ mu = NoMu
    /\ cache = NoCache
    /\ sel = NoSel

\* Resize up to the call of resizeBilinear
Resize ==
    /\ rz.pc = "call"
    /\ IF rz.width <= rz.maxDim /\ rz.height <= rz.maxDim
       THEN rz' = [rz EXCEPT !.pc = "returned", !.same = TRUE,
                             !.Dx = rz.width, !.Dy = rz.height]
       ELSE LET d == NewDimensions(rz.width, rz.height, rz.maxDim)
            IN  rz' = [rz EXCEPT !.pc = "resizeBilinear",
                                 !.newWidth = d.newWidth, !.newHeight = d.newHeight]
    /\ UNCHANGED <<args, pc, ga, err, gen, bestFitness, bestIndividual, ams, ev, tasks,
                   batchChan, recv, fit, initialFitness, sel, cx, obj, au, mu, cache>>

\* resizeBilinear returns a new image of the bounds Rect(0, 0, newWidth, newHeight)
resizeBilinear ==
    /\ rz.pc = "resizeBilinear"
    /\ rz' = [rz EXCEPT !.pc = "returned",
                        !.Dx = RectSide(0, rz.newWidth), !.Dy = RectSide(0, rz.newHeight)]
    /\ UNCHANGED <<args, pc, ga, err, gen, bestFitness, bestIndividual, ams, ev, tasks,
                   batchChan, recv, fit, initialFitness, sel, cx, obj, au, mu, cache>>

ResizeNext == Resize \/ resizeBilinear

ResizeSpec == ResizeInit /\ [][ResizeNext]_vars

\* C16: Resize returns the image it was given when both dimensions are at most
\* maxDim; otherwise the larger dimension of the result is maxDim and the
\* other one is floor(other * maxDim / larger), so both are at most maxDim.
C16_ResizedWithinMaxDim ==
    rz.pc = "returned" =>
        IF rz.width <= rz.maxDim /\ rz.height <= rz.maxDim
        THEN rz.same /\ rz.Dx = rz.width /\ rz.Dy = rz.height
        ELSE /\ ~rz.same
             /\ rz.width > rz.height =>
                   (rz.Dx = rz.maxDim /\ rz.Dy = (rz.height * rz.maxDim) \div rz.width)
             /\ rz.width <= rz.height =>
                   (rz.Dy = rz.maxDim /\ rz.Dx = (rz.width * rz.maxDim) \div rz.height)
             /\ Max(rz.Dx, rz.Dy) = rz.maxDim
             /\ rz.Dx <= rz.maxDim
             /\ rz.Dy <= rz.maxDim

\* an image of 5 x 3 has been resized to 4 x 2: the quotient 12 / 5 is rounded
\* down
C16_WideImageResized ==
    /\ rz.pc = "returned"
    /\ ~rz.same
    /\ rz.width = 5
    /\ rz.height = 3
    /\ rz.maxDim = 4
    /\ rz.Dy = 2

-----------------------------------------------------------------------------
(* individual.go: CalculateFitness and calculateRegionFitness (FitSpec).     *)
(* An image.RGBA is its width W, its height H and its pixels Pix row by row: *)
(* the pixel of column x and row y is Pix[y * W + x + 1], a tuple of the     *)
(* four channels.                                                            *)

MaxDim == 2            \* widths and heights 0..MaxDim
MaxProcs == 3          \* runtime.GOMAXPROCS(0) in 1..MaxProcs

\* the pixels tried: they differ in the alpha channel only
PixelValues == {<<0, 0, 0, 0>>, <<0, 0, 0, 1>>}

\* the widths and heights tried: all up to MaxDim, and one column of
\* MaxDim + 1 rows, which two goroutines do not divide evenly
FitShapes == {<<w, h>> : w \in 0..MaxDim, h \in 0..MaxDim} \cup {<<1, MaxDim + 1>>}

Images(width, height) ==
    [W : {width}, H : {height}, Pix : [1..(width * height) -> PixelValues]]

\* the largest r in lo..hi with r * r <= n
RECURSIVE SqrtBetween(_, _, _)
SqrtBetween(n, lo, hi) ==
    IF lo >= hi THEN lo
    ELSE LET mid == (lo + hi + 1) \div 2
         IN  IF mid * mid <= n THEN SqrtBetween(n, mid, hi)
             ELSE SqrtBetween(n, lo, mid - 1)

\* math.Sqrt of an integer n with n * Scale * Scale below 2^31
FSqrt(n) == Fin(SqrtBetween(n * Scale * Scale, 0, 4 * Scale))

\* math.Sqrt(rDiff*rDiff + gDiff*gDiff + bDiff*bDiff + aDiff*aDiff)
PixelDistance(p1, p2) ==
    LET rDiff == p1[1] - p2[1]
        gDiff == p1[2] - p2[2]
        bDiff == p1[3] - p2[3]
        aDiff == p1[4] - p2[4]
    IN  FSqrt(rDiff * rDiff + gDiff * gDiff + bDiff * bDiff + aDiff * aDiff)

\* difference after the pixels first..last of the buffers, in the loop's order
RECURSIVE SumDistances(_, _, _, _)
SumDistances(img1, img2, first, last) ==
    IF last < first THEN Fin(0)
    ELSE FAdd(SumDistances(img1, img2, first, last - 1),
              PixelDistance(img1.Pix[last], img2.Pix[last]))

calculateRegionFitness(img1, img2, startY, endY) ==
    LET width == img1.W
    IN  SumDistances(img1, img2, startY * width + 1, endY * width)

\* the band of goroutine i
StartY(i, rowsPerGoroutine) == i * rowsPerGoroutine
\* every band of rowsPerGoroutine rows, the last one too: a variant C29 has to
\* exclude
EndYOfEqualBands(i, rowsPerGoroutine, numGoroutines, height) ==
    StartY(i, rowsPerGoroutine) + rowsPerGoroutine
EndY(i, rowsPerGoroutine, numGoroutines, height) ==
    IF i = numGoroutines - 1 THEN height
    ELSE StartY(i, rowsPerGoroutine) + rowsPerGoroutine

\* totalDifference after differences[0..n-1]
RECURSIVE TotalDifference(_, _)
TotalDifference(differences, n) ==
    IF n = 0 THEN Fin(0)
    ELSE FAdd(TotalDifference(differences, n - 1), differences[n - 1])

FitInit ==
    /\ fit \in {[pc |-> "call", img |-> img, target |-> target, numGoroutines |-> n,
                 rowsPerGoroutine |-> 0, differences |-> <<>>, running |-> {},
                 Fitness |-> PInf] :
                   img \in UNION {Images(sh[1], sh[2]) : sh \in FitShapes},
                   target \in UNION {Images(sh[1], sh[2]) : sh \in FitShapes},
                   n \in 1..MaxProcs}
    /\ fit.img.W = fit.target.W
    /\ fit.img.H = fit.target.H
    /\ args = NoArgs
    /\ pc = "fitness"
    /\ ga = NoGA
    /\ err = Nil
    /\ gen = 0
    /\ bestFitness = PInf
    /\ bestIndividual = NilIndividual
    /\ ams = NoAms
    /\ ev = NoEv
    /\ tasks = <<>>
    /\ batchChan = <<>>
    /\ recv = NoRecv
    /\ initialFitness = PInf
    /\ cx = NoCx
    /\ obj = NoObj
    /\ au = NoAu
    /\ mu = NoMu
    /\ cache = NoCache
    /\ sel = NoSel
    /\ rz = NoRz

\* CalculateFitness up to wg.Wait(): the goroutines are started
FitCall ==
    /\ fit.pc = "call"
    /\ fit' = [fit EXCEPT
                 !.pc = "wait",
                 !.rowsPerGoroutine = fit.target.H \div fit.numGoroutines,
                 !.differences = [i \in 0..(fit.numGoroutines - 1) |-> Fin(0)],
                 !.running = 0..(fit.numGoroutines - 1)]
    /\ UNCHANGED <<args, pc, ga, err, gen, bestFitness, bestIndividual, ams, ev, tasks,
                   batchChan, recv, initialFitness, sel, rz, cx, obj, au, mu, cache>>

\* go func(startY, endY, idx int)
RegionTask(idx) ==
    /\ fit.pc = "wait"
    /\ idx \in fit.running
    /\ LET startY == StartY(idx, fit.rowsPerGoroutine)
           endY == EndY(idx, fit.rowsPerGoroutine, fit.numGoroutines, fit.target.H)
       IN  fit' = [fit EXCEPT
                     !.differences[idx] =
                         calculateRegionFitness(fit.img, fit.target, startY, endY),
                     !.running = @ \ {idx}]
    /\ UNCHANGED <<args, pc, ga, err, gen, bestFitness, bestIndividual, ams, ev, tasks,
                   batchChan, recv, initialFitness, sel, rz, cx, obj, au, mu, cache>>

\* wg.Wait() has returned: the sum and the division
FitReturn ==
    /\ fit.pc = "wait"
    /\ fit.running = {}
    /\ LET width == fit.target.W
           height == fit.target.H
           totalDifference == TotalDifference(fit.differences, fit.numGoroutines)
       IN  fit' = [fit EXCEPT
                     !.pc = "done",
                     !.Fitness = FDiv(totalDifference, FromInt(width * height))]
    /\ UNCHANGED <<args, pc, ga, err, gen, bestFitness, bestIndividual, ams, ev, tasks,
                   batchChan, recv, initialFitness, sel, rz, cx, obj, au, mu, cache>>

FitNext ==
    \/ FitCall
    \/ \E idx \in 0..(MaxProcs - 1) : RegionTask(idx)
    \/ FitReturn

FitSpec == FitInit /\ [][FitNext]_vars

-----------------------------------------------------------------------------
(* The claims on FitSpec *)

Band(i) ==
    {y \in 0..(fit.target.H - 1) :
        /\ StartY(i, fit.rowsPerGoroutine) <= y
        /\ y < EndY(i, fit.rowsPerGoroutine, fit.numGoroutines, fit.target.H)}

\* C29: the bands of CalculateFitness are contiguous and pairwise disjoint and
\* cover the rows [0, height) for every height and number of goroutines; each
\* band writes its own slot of differences only, and the fitness is computed
\* from the slots once no band is running, so that it is the same whatever
\* the order in which the bands finish.
C29_BandsPartitionRows ==
    fit.pc \in {"wait", "done"} =>
        LET n == fit.numGoroutines
            rows == fit.rowsPerGoroutine
            height == fit.target.H
            width == fit.target.W
            band(i) == calculateRegionFitness(fit.img, fit.target, StartY(i, rows),
                                              EndY(i, rows, n, height))
        IN  /\ StartY(0, rows) = 0
            /\ EndY(n - 1, rows, n, height) = height
            /\ \A i \in 0..(n - 2) : EndY(i, rows, n, height) = StartY(i + 1, rows)
            /\ \A i \in 0..(n - 1) : StartY(i, rows) <= EndY(i, rows, n, height)
            /\ \A y \in 0..(height - 1) :
                  Cardinality({i \in 0..(n - 1) : y \in Band(i)}) = 1
            /\ DOMAIN fit.differences = 0..(n - 1)
            /\ \A i \in 0..(n - 1) :
                  fit.differences[i] = IF i \in fit.running THEN Fin(0) ELSE band(i)
            /\ fit.pc = "wait" => fit.Fitness = PInf
            /\ fit.pc = "done" =>
                  /\ fit.running = {}
                  /\ fit.Fitness =
                        FDiv(TotalDifference([i \in 0..(n - 1) |-> band(i)], n),
                             FromInt(width * height))
                  /\ width * height > 0 =>
                        fit.Fitness = FDiv(SumDistances(fit.img, fit.target, 1,
                                                        width * height),
                                           FromInt(width * height))

\* of the two bands of a column of three rows the last one, of two rows, has
\* finished first and found a difference
C29_LastBandFirst ==
    /\ fit.pc = "wait"
    /\ fit.numGoroutines = 2
    /\ fit.target.H = 3
    /\ fit.running = {0}
    /\ Band(1) = {1, 2}
    /\ fit.differences[1] # Fin(0)

-----------------------------------------------------------------------------
(* crossover.go on pixel buffers.  The images are those of FitSpec: W, H and
   Pix row by row, the pixel of column x and row y at Pix[y * W + x + 1].  The
   parents of a crossover have the same bounds: both come from one population,
   whose individuals all have the bounds of the target. *)

\* the image of a CreateBlankCopy: the bounds of img, every channel 0
BlankImage(img) ==
    [W |-> img.W, H |-> img.H, Pix |-> [k \in 1..(img.W * img.H) |-> <<0, 0, 0, 0>>]]

\* the image of a CreateCopy: a new buffer with the pixels of img
CopyImage(img) == [W |-> img.W, H |-> img.H, Pix |-> img.Pix]

\* uint8(x) of a float64 in [0, 256): truncation
Uint8(x) == FTrunc(x) % 256

-----------------------------------------------------------------------------
(* crossover.go: blendCrossover (BlendSpec).  cx.running holds the strips
   still to run, cx.rowWrites how often each row has been written. *)

MaxBlendRows == 3      \* heights 1..MaxBlendRows, width 1
BlendPixels == {<<0, 0, 0, 0>>, <<200, 100, 50, 255>>}
\* the values of blendAlpha tried
BlendAlphas == {0, Scale \div 4}

BlendImages(height) == [W : {1}, H : {height}, Pix : [1..height -> BlendPixels]]

\* uint8(p1*(1-blendAlpha) + p2*blendAlpha)
Blend(p1, p2, blendAlpha) ==
    Uint8(FAdd(FMul(FromInt(p1), FSub(FromInt(1), Fin(blendAlpha))),
               FMul(FromInt(p2), Fin(blendAlpha))))

BlendPixel1(p1, p2, blendAlpha) == [j \in 1..4 |-> Blend(p1[j], p2[j], blendAlpha)]
BlendPixel2(p1, p2, blendAlpha) == [j \in 1..4 |-> Blend(p2[j], p1[j], blendAlpha)]

BlendInit ==
    /\ \E height \in 1..MaxBlendRows, n \in 1..MaxProcs :
          \E parent1 \in BlendImages(height), parent2 \in BlendImages(height) :
             cx = [pc |-> "call", parent1 |-> parent1, parent2 |-> parent2,
                   numGoroutines |-> n, rowsPerGoroutine |-> 0,
                   child1 |-> NoImage, child2 |-> NoImage, running |-> {},
                   rowWrites |-> <<>>, alphas |-> <<>>]
    /\ args = NoArgs
    /\ pc = "idle"
    /\ ga = NoGA
    /\ err = Nil
    /\ gen = 0
    /\ bestFitness = PInf
    /\ bestIndividual = NilIndividual
    /\ ams = NoAms
    /\ ev = NoEv
    /\ tasks = <<>>
    /\ batchChan = <<>>
    /\ recv = NoRecv
    /\ fit = NoFit
    /\ initialFitness = PInf
    /\ sel = NoSel
    /\ rz = NoRz
    /\ obj = NoObj
    /\ au = NoAu
    /\ mu = NoMu
    /\ cache = NoCache

\* blendCrossover up to wg.Wait(): the children and the goroutines
blendCall ==
    /\ cx.pc = "call"
    /\ cx' = [cx EXCEPT
                !.pc = "wait",
                !.child1 = BlankImage(cx.parent1),
                !.child2 = BlankImage(cx.parent2),
                !.rowsPerGoroutine = cx.parent1.H \div cx.numGoroutines,
                !.running = 0..(cx.numGoroutines - 1),
                !.rowWrites = [y \in 1..cx.parent1.H |-> 0],
                !.alphas = [y \in 1..cx.parent1.H |-> -1]]
    /\ UNCHANGED <<args, pc, ga, err, gen, bestFitness, bestIndividual, ams, ev, tasks,
                   batchChan, recv, fit, initialFitness, sel, rz, obj, au, mu, cache>>

\* go func(startY, endY int) with startY = i*rowsPerGoroutine and
\* endY = (i+1)*rowsPerGoroutine; the width is 1, so row y is pixel y + 1
blendStrip(i) ==
    /\ cx.pc = "wait"
    /\ i \in cx.running
    /\ \E blendAlpha \in BlendAlphas :
          LET startY == i * cx.rowsPerGoroutine
              endY == (i + 1) * cx.rowsPerGoroutine
              rows == {y \in 1..cx.parent1.H : startY <= y - 1 /\ y - 1 < endY}
          IN  cx' = [cx EXCEPT
                       !.child1.Pix = [y \in 1..cx.parent1.H |->
                            IF y \in rows
                            THEN BlendPixel1(cx.parent1.Pix[y], cx.parent2.Pix[y], blendAlpha)
                            ELSE cx.child1.Pix[y]],
                       !.child2.Pix = [y \in 1..cx.parent1.H |->
                            IF y \in rows
                            THEN BlendPixel2(cx.parent1.Pix[y], cx.parent2.Pix[y], blendAlpha)
                            ELSE cx.child2.Pix[y]],
                       !.rowWrites = [y \in 1..cx.parent1.H |->
                            IF y \in rows THEN cx.rowWrites[y] + 1 ELSE cx.rowWrites[y]],
                       !.alphas = [y \in 1..cx.parent1.H |->
                            IF y \in rows THEN blendAlpha ELSE cx.alphas[y]],
                       !.running = @ \ {i}]
    /\ UNCHANGED <<args, pc, ga, err, gen, bestFitness, bestIndividual, ams, ev, tasks,
                   batchChan, recv, fit, initialFitness, sel, rz, obj, au, mu, cache>>

\* wg.Wait() has returned
blendReturn ==
    /\ cx.pc = "wait"
    /\ cx.running = {}
    /\ cx' = [cx EXCEPT !.pc = "returned"]
    /\ UNCHANGED <<args, pc, ga, err, gen, bestFitness, bestIndividual, ams, ev, tasks,
                   batchChan, recv, fit, initialFitness, sel, rz, obj, au, mu, cache>>

BlendNext ==
    \/ blendCall
    \/ \E i \in 0..(MaxProcs - 1) : blendStrip(i)
    \/ blendReturn

BlendSpec == BlendInit /\ [][BlendNext]_vars

\* C25: in blend crossover the strips cover every row exactly once for every
\* height and number of goroutines, so that every channel of child1 is
\* uint8(p1*(1-a) + p2*a) and of child2 the complementary mix, a being the
\* blendAlpha of the row's strip; no row is left unwritten.
C25_EveryRowBlended ==
    cx.pc = "returned" =>
        \A y \in 1..cx.parent1.H :
            /\ cx.rowWrites[y] = 1
            /\ cx.alphas[y] \in BlendAlphas
            /\ cx.child1.Pix[y] =
                  BlendPixel1(cx.parent1.Pix[y], cx.parent2.Pix[y], cx.alphas[y])
            /\ cx.child2.Pix[y] =
                  BlendPixel2(cx.parent1.Pix[y], cx.parent2.Pix[y], cx.alphas[y])

-----------------------------------------------------------------------------
(* crossover.go: crossoverPoint (PointSpec).  Every pixel of a parent differs
   from every other pixel of the two parents: its first channel is the
   parent's number, its second one the pixel's index. *)

MaxPointSide == 4      \* widths and heights 1..MaxPointSide

MarkedImage(p, width, height) ==
    [W |-> width, H |-> height, Pix |-> [k \in 1..(width * height) |-> <<p, k, 0, 255>>]]

\* the values of rand.Intn(n) without the + 1: a variant C27 has to exclude
SplitPointsFromZero(n) == 0..(n - 1)

\* the values of rand.Intn(n) + 1 for n > 0
SplitPoints(n) == {k + 1 : k \in 0..(n - 1)}

\* copy(dst.Pix[from*4 : to*4], src.Pix[from*4 : to*4]) in pixels, 0-based
CopyPixels(dst, src, from, to) ==
    [dst EXCEPT !.Pix = [k \in 1..Len(dst.Pix) |->
                            IF from <= k - 1 /\ k - 1 < to THEN src.Pix[k] ELSE dst.Pix[k]]]

PointInit ==
    /\ \E width \in 1..MaxPointSide, height \in 1..MaxPointSide, r \in Float64Draws :
          cx = [pc |-> "call", parent1 |-> MarkedImage(1, width, height),
                parent2 |-> MarkedImage(2, width, height), r |-> r,
                isHorizontal |-> FALSE, splitPoint |-> 0, y |-> 0,
                child1 |-> NoImage, child2 |-> NoImage]
    /\ args = NoArgs
    /\ pc = "idle"
    /\ ga = NoGA
    /\ err = Nil
    /\ gen = 0
    /\ bestFitness = PInf
    /\ bestIndividual = NilIndividual
    /\ ams = NoAms
    /\ ev = NoEv
    /\ tasks = <<>>
    /\ batchChan = <<>>
    /\ recv = NoRecv
    /\ fit = NoFit
    /\ initialFitness = PInf
    /\ sel = NoSel
    /\ rz = NoRz
    /\ obj = NoObj
    /\ au = NoAu
    /\ mu = NoMu
    /\ cache = NoCache

\* crossoverPoint up to the loop over the rows of a vertical split: the
\* children, the orientation, the split point and, for a horizontal split,
\* the four copies and the return.  rand.Intn(n) panics for n <= 0.
pointSplit ==
    /\ cx.pc = "call"
    /\ LET child1 == BlankImage(cx.parent1)
           child2 == BlankImage(cx.parent2)
           isHorizontal == cx.r <= Scale \div 2
           stride == child1.W
           n == IF isHorizontal THEN child1.H - 1 ELSE child1.W - 1
           size == child1.W * child1.H
       IN  IF n <= 0
           THEN cx' = [cx EXCEPT !.pc = "panic", !.isHorizontal = isHorizontal]
           ELSE \E splitPoint \in SplitPoints(n) :
                  IF isHorizontal
                  THEN cx' = [cx EXCEPT
                         !.pc = "returned",
                         !.isHorizontal = TRUE,
                         !.splitPoint = splitPoint,
                         !.child1 = CopyPixels(
                                       CopyPixels(child1, cx.parent1, 0, splitPoint * stride),
                                       cx.parent2, splitPoint * stride, size),
                         !.child2 = CopyPixels(
                                       CopyPixels(child2, cx.parent2, 0, splitPoint * stride),
                                       cx.parent1, splitPoint * stride, size)]
                  ELSE cx' = [cx EXCEPT
                         !.pc = "rows",
                         !.isHorizontal = FALSE,
                         !.splitPoint = splitPoint,
                         !.y = 0,
                         !.child1 = child1,
                         !.child2 = child2]
    /\ UNCHANGED <<args, pc, ga, err, gen, bestFitness, bestIndividual, ams, ev, tasks,
                   batchChan, recv, fit, initialFitness, sel, rz, obj, au, mu, cache>>

\* one row of a vertical split
pointRow ==
    /\ cx.pc = "rows"
    /\ cx.y < cx.child1.H
    /\ LET stride == cx.child1.W
           i == cx.y * stride
       IN  cx' = [cx EXCEPT
                    !.y = @ + 1,
                    !.child1 = CopyPixels(
                                  CopyPixels(cx.child1, cx.parent1, i, i + cx.splitPoint),
                                  cx.parent2, i + cx.splitPoint, i + stride),
                    !.child2 = CopyPixels(
                                  CopyPixels(cx.child2, cx.parent2, i, i + cx.splitPoint),
                                  cx.parent1, i + cx.splitPoint, i + stride)]
    /\ UNCHANGED <<args, pc, ga, err, gen, bestFitness, bestIndividual, ams, ev, tasks,
                   batchChan, recv, fit, initialFitness, sel, rz, obj, au, mu, cache>>

pointReturn ==
    /\ cx.pc = "rows"
    /\ ~(cx.y < cx.child1.H)
    /\ cx' = [cx EXCEPT !.pc = "returned"]
    /\ UNCHANGED <<args, pc, ga, err, gen, bestFitness, bestIndividual, ams, ev, tasks,
                   batchChan, recv, fit, initialFitness, sel, rz, obj, au, mu, cache>>

PointNext == pointSplit \/ pointRow \/ pointReturn

PointSpec == PointInit /\ [][PointNext]_vars

\* the pixel of column x and row y, 0-based
PixelAt(img, x, y) == img.Pix[y * img.W + x + 1]

\* C27: in point-split crossover the split coordinate s is in 1..dimension-1
\* of the orientation chosen; child1 has the pixels of parent1 before s and
\* of parent2 from s on, child2 the mirror assignment, so that at every pixel
\* (child1, child2) is a permutation of (parent1, parent2) and each child
\* holds at least one whole row or column of each parent.
C27_SplitBetweenParents ==
    cx.pc = "returned" =>
        LET width == cx.parent1.W
            height == cx.parent1.H
            s == cx.splitPoint
            before(x, y) == IF cx.isHorizontal THEN y < s ELSE x < s
        IN  /\ 1 <= s
            /\ s <= (IF cx.isHorizontal THEN height ELSE width) - 1
            /\ cx.child1.W = width /\ cx.child1.H = height
            /\ cx.child2.W = width /\ cx.child2.H = height
            /\ \A x \in 0..(width - 1), y \in 0..(height - 1) :
                  /\ PixelAt(cx.child1, x, y) =
                        IF before(x, y) THEN PixelAt(cx.parent1, x, y)
                        ELSE PixelAt(cx.parent2, x, y)
                  /\ PixelAt(cx.child2, x, y) =
                        IF before(x, y) THEN PixelAt(cx.parent2, x, y)
                        ELSE PixelAt(cx.parent1, x, y)
                  /\ {PixelAt(cx.child1, x, y), PixelAt(cx.child2, x, y)} =
                        {PixelAt(cx.parent1, x, y), PixelAt(cx.parent2, x, y)}
            /\ \A child \in {cx.child1, cx.child2}, parent \in {cx.parent1, cx.parent2} :
                  IF cx.isHorizontal
                  THEN \E y \in 0..(height - 1) : \A x \in 0..(width - 1) :
                          PixelAt(child, x, y) = PixelAt(parent, x, y)
                  ELSE \E x \in 0..(width - 1) : \A y \in 0..(height - 1) :
                          PixelAt(child, x, y) = PixelAt(parent, x, y)

\* an image of three columns and two rows has been split after its second
\* column
C27_VerticalSplit ==
    /\ cx.pc = "returned"
    /\ ~cx.isHorizontal
    /\ cx.parent1.W = 3
    /\ cx.parent1.H = 2
    /\ cx.splitPoint = 2
    /\ PixelAt(cx.child1, 2, 1) = PixelAt(cx.parent2, 2, 1)

-----------------------------------------------------------------------------
(* crossover.go: gaussianPerturbationCrossover (GaussSpec).  A uint32 is
   held as <<low 16 bits, high 16 bits>>. *)

MaxGaussRows == 2      \* heights 1..MaxGaussRows, width 1

gaussianNoiseScale == Scale \div 10

GaussPixels == {<<0, 0, 0, 0>>, <<0, 1, 0, 0>>, <<10, 20, 30, 40>>, <<200, 100, 50, 255>>}

GaussImages(height) ==
    {[W |-> 1, H |-> height, Pix |-> pix] : pix \in [1..height -> GaussPixels]}

\* uint32(Pix[idx]) | uint32(Pix[idx+1])<<8 | uint32(Pix[idx+2])<<16 | uint32(Pix[idx+3])<<24
Pack32(p) == <<p[1] + p[2] * 2^8, p[3] + p[4] * 2^8>>

\* a + b of uint32: the carry out of bit 31 is lost
Add32(a, b) ==
    LET lo == a[1] + b[1]
    IN  <<lo % 2^16, (a[2] + b[2] + lo \div 2^16) % 2^16>>

\* a / 2 of uint32
Half32(a) == <<((a[2] % 2) * 2^16 + a[1]) \div 2, a[2] \div 2>>

\* uint8((a >> (8*k)) & 0xFF)
Byte32(a, k) ==
    IF k = 0 THEN a[1] % 2^8
    ELSE IF k = 1 THEN a[1] \div 2^8
    ELSE IF k = 2 THEN a[2] % 2^8
    ELSE a[2] \div 2^8

\* mean := (p1 + p2) / 2 and its four channels
MeanPixel(p1, p2) ==
    LET mean == Half32(Add32(Pack32(p1), Pack32(p2)))
    IN  [j \in 1..4 |-> Byte32(mean, j - 1)]

\* uint8(mathutil.Clamp(float64(mean) + noise, 0, 255)) per channel
Perturbed(mean, noise) ==
    [j \in 1..4 |-> Uint8(FClamp(FAdd(FromInt(mean[j]), Fin(noise)), FromInt(0), FromInt(255)))]

GaussInit ==
    /\ \E height \in 1..MaxGaussRows :
          \E parent1 \in GaussImages(height), parent2 \in GaussImages(height) :
             cx = [pc |-> "call", parent1 |-> parent1, parent2 |-> parent2,
                   y |-> 0, child1 |-> NoImage, child2 |-> NoImage, noises |-> <<>>]
    /\ args = NoArgs
    /\ pc = "idle"
    /\ ga = NoGA
    /\ err = Nil
    /\ gen = 0
    /\ bestFitness = PInf
    /\ bestIndividual = NilIndividual
    /\ ams = NoAms
    /\ ev = NoEv
    /\ tasks = <<>>
    /\ batchChan = <<>>
    /\ recv = NoRecv
    /\ fit = NoFit
    /\ initialFitness = PInf
    /\ sel = NoSel
    /\ rz = NoRz
    /\ obj = NoObj
    /\ au = NoAu
    /\ mu = NoMu
    /\ cache = NoCache

gaussCall ==
    /\ cx.pc = "call"
    /\ cx' = [cx EXCEPT !.pc = "rows", !.y = 0,
                        !.child1 = BlankImage(cx.parent1),
                        !.child2 = BlankImage(cx.parent2)]
    /\ UNCHANGED <<args, pc, ga, err, gen, bestFitness, bestIndividual, ams, ev, tasks,
                   batchChan, recv, fit, initialFitness, sel, rz, obj, au, mu, cache>>

\* one row: the noise of the row, then every pixel of the row
gaussRow ==
    /\ cx.pc = "rows"
    /\ cx.y < cx.child1.H
    /\ \E r \in Float64Draws :
          LET noise == MulUnits(r, gaussianNoiseScale)
              i == cx.y * cx.child1.W
              inRow(k) == i <= k - 1 /\ k - 1 < i + cx.child1.W
              mean(k) == MeanPixel(cx.parent1.Pix[k], cx.parent2.Pix[k])
          IN  cx' = [cx EXCEPT
                       !.y = @ + 1,
                       !.noises = Append(@, noise),
                       !.child1.Pix = [k \in 1..Len(@) |->
                           IF inRow(k) THEN Perturbed(mean(k), noise) ELSE @[k]],
                       !.child2.Pix = [k \in 1..Len(@) |->
                           IF inRow(k) THEN Perturbed(mean(k), -noise) ELSE @[k]]]
    /\ UNCHANGED <<args, pc, ga, err, gen, bestFitness, bestIndividual, ams, ev, tasks,
                   batchChan, recv, fit, initialFitness, sel, rz, obj, au, mu, cache>>

gaussReturn ==
    /\ cx.pc = "rows"
    /\ ~(cx.y < cx.child1.H)
    /\ cx' = [cx EXCEPT !.pc = "returned"]
    /\ UNCHANGED <<args, pc, ga, err, gen, bestFitness, bestIndividual, ams, ev, tasks,
                   batchChan, recv, fit, initialFitness, sel, rz, obj, au, mu, cache>>

GaussNext == gaussCall \/ gaussRow \/ gaussReturn

GaussSpec == GaussInit /\ [][GaussNext]_vars

\* C26: in Gaussian-perturbation crossover the mean of a channel of a pixel
\* is floor((p1 + p2) / 2) of that channel of the two parents alone, for all
\* channel values 0..255: child1, whose noise is in [0, 0.1), has exactly
\* that mean in every channel, and two identical parents give a child1
\* identical to them.
C26_MeanPerChannel ==
    cx.pc = "returned" =>
        /\ \A k \in 1..Len(cx.child1.Pix) : \A j \in 1..4 :
              cx.child1.Pix[k][j] = (cx.parent1.Pix[k][j] + cx.parent2.Pix[k][j]) \div 2
        /\ cx.parent1 = cx.parent2 => cx.child1 = cx.parent1

-----------------------------------------------------------------------------
(* crossover.go: patchCrossover (PatchSpec).  cx.tiles lists the tiles the
   loops have visited with their choice, cx.swaps how often each pixel has
   been swapped. *)

patchSize == 8
patchCrossoverSwapProbability == (3 * Scale) \div 10

\* widths and heights: one pixel, one tile, one tile and a clipped one, two
\* tiles
PatchSides == {1, patchSize, patchSize + 1, 2 * patchSize}

\* o + d for d in 0..patchSize-1 without the test against the image's
\* side: a variant C28 has to exclude
TileSpanUnclipped(o, side) == {o + d : d \in 0..(patchSize - 1)}

\* the values o + d of an inner loop: d < patchSize && (o + d) < side
TileSpan(o, side) == {o + d : d \in {e \in 0..(patchSize - 1) : o + e < side}}

\* the pixels (0-based, idx / 4) the inner loops of the tile at (x, y) index
TileIndexes(img, x, y) ==
    {py * img.W + px : px \in TileSpan(x, img.W), py \in TileSpan(y, img.H)}

PatchInit ==
    /\ \E width \in PatchSides, height \in PatchSides :
          cx = [pc |-> "call", parent1 |-> MarkedImage(1, width, height),
                parent2 |-> MarkedImage(2, width, height),
                x |-> 0, y |-> 0, child1 |-> NoImage, child2 |-> NoImage,
                tiles |-> <<>>, swaps |-> <<>>]
    /\ args = NoArgs
    /\ pc = "idle"
    /\ ga = NoGA
    /\ err = Nil
    /\ gen = 0
    /\ bestFitness = PInf
    /\ bestIndividual = NilIndividual
    /\ ams = NoAms
    /\ ev = NoEv
    /\ tasks = <<>>
    /\ batchChan = <<>>
    /\ recv = NoRecv
    /\ fit = NoFit
    /\ initialFitness = PInf
    /\ sel = NoSel
    /\ rz = NoRz
    /\ obj = NoObj
    /\ au = NoAu
    /\ mu = NoMu
    /\ cache = NoCache

patchCall ==
    /\ cx.pc = "call"
    /\ cx' = [cx EXCEPT !.pc = "tiles", !.x = 0, !.y = 0,
                        !.child1 = CopyImage(cx.parent1),
                        !.child2 = CopyImage(cx.parent2),
                        !.swaps = [k \in 1..Len(cx.parent1.Pix) |-> 0]]
    /\ UNCHANGED <<args, pc, ga, err, gen, bestFitness, bestIndividual, ams, ev, tasks,
                   batchChan, recv, fit, initialFitness, sel, rz, obj, au, mu, cache>>

\* one iteration of the loop over x inside the loop over y: the draw and,
\* if it is below the probability, the swap of the tile's pixels.  An index
\* outside Pix panics.
patchTile ==
    /\ cx.pc = "tiles"
    /\ cx.y < cx.child1.H
    /\ \E r \in Float64Draws :
          LET swap == r < patchCrossoverSwapProbability
              indexes == TileIndexes(cx.child1, cx.x, cx.y)
              size == Len(cx.child1.Pix)
              nextX == cx.x + patchSize
              inTile(k) == (k - 1) \in indexes
          IN  IF swap /\ \E i \in indexes : i >= size
              THEN cx' = [cx EXCEPT !.pc = "panic"]
              ELSE cx' = [cx EXCEPT
                     !.x = IF nextX < cx.child1.W THEN nextX ELSE 0,
                     !.y = IF nextX < cx.child1.W THEN @ ELSE @ + patchSize,
                     !.tiles = Append(@, [x |-> cx.x, y |-> cx.y, swap |-> swap]),
                     !.swaps = [k \in 1..size |->
                                   IF swap /\ inTile(k) THEN @[k] + 1 ELSE @[k]],
                     !.child1.Pix = [k \in 1..size |->
                                   IF swap /\ inTile(k) THEN cx.parent2.Pix[k] ELSE @[k]],
                     !.child2.Pix = [k \in 1..size |->
                                   IF swap /\ inTile(k) THEN cx.parent1.Pix[k] ELSE @[k]]]
    /\ UNCHANGED <<args, pc, ga, err, gen, bestFitness, bestIndividual, ams, ev, tasks,
                   batchChan, recv, fit, initialFitness, sel, rz, obj, au, mu, cache>>

patchReturn ==
    /\ cx.pc = "tiles"
    /\ ~(cx.y < cx.child1.H)
    /\ cx' = [cx EXCEPT !.pc = "returned"]
    /\ UNCHANGED <<args, pc, ga, err, gen, bestFitness, bestIndividual, ams, ev, tasks,
                   batchChan, recv, fit, initialFitness, sel, rz, obj, au, mu, cache>>

PatchNext == patchCall \/ patchTile \/ patchReturn

PatchSpec == PatchInit /\ [][PatchNext]_vars

\* the visited tiles whose 8x8 square holds the pixel of column px, row py
TilesOf(px, py) ==
    {t \in 1..Len(cx.tiles) :
        /\ cx.tiles[t].x <= px /\ px < cx.tiles[t].x + patchSize
        /\ cx.tiles[t].y <= py /\ py < cx.tiles[t].y + patchSize}

\* C28: in patch-swap crossover every pixel of the image is in exactly one
\* 8x8 tile, the tiles at the edges being clipped to the image; the pixels
\* of a tile all make the tile's choice: at a pixel (child1, child2) is
\* (parent1, parent2) if its tile was not swapped and (parent2, parent1) if
\* it was; and no index outside the image is accessed, whatever the width
\* and the height.
C28_TilesSwapWhole ==
    /\ cx.pc # "panic"
    /\ cx.pc = "returned" =>
          \A px \in 0..(cx.parent1.W - 1), py \in 0..(cx.parent1.H - 1) :
             /\ Cardinality(TilesOf(px, py)) = 1
             /\ \A t \in TilesOf(px, py) :
                   /\ cx.swaps[py * cx.parent1.W + px + 1] = IF cx.tiles[t].swap THEN 1 ELSE 0
                   /\ PixelAt(cx.child1, px, py) =
                         IF cx.tiles[t].swap THEN PixelAt(cx.parent2, px, py)
                         ELSE PixelAt(cx.parent1, px, py)
                   /\ PixelAt(cx.child2, px, py) =
                         IF cx.tiles[t].swap THEN PixelAt(cx.parent1, px, py)
                         ELSE PixelAt(cx.parent2, px, py)

\* a 9x9 image of four tiles: the clipped tile of the corner has been
\* swapped, the first tile has not
C28_ClippedTileSwapped ==
    /\ cx.pc = "returned"
    /\ cx.parent1.W = patchSize + 1
    /\ cx.parent1.H = patchSize + 1
    /\ Len(cx.tiles) = 4
    /\ cx.tiles[4].swap
    /\ ~cx.tiles[1].swap
    /\ PixelAt(cx.child1, patchSize, patchSize) = PixelAt(cx.parent2, patchSize, patchSize)
    /\ PixelAt(cx.child1, 0, 0) = PixelAt(cx.parent1, 0, 0)

-----------------------------------------------------------------------------
(* algorithm.go: Run and evolvePopulation on objects (ObjSpec).  An
   *Individual is a position of obj.inds, its Image the position of a pixel
   buffer in obj.bufs; the pixels of a buffer are one number and the fitness
   of an image is that number.  0 is nil.  An object no variable leads to
   is collected and its position is used again.  The pair tasks of a
   generation write only objects they have allocated (C18), so they are run
   one after the other.  The target is one on which no strategy panics. *)

MaxObjPop == 3         \* PopulationSize 1..MaxObjPop
MaxObjGen == 2         \* Generations 1..MaxObjGen
MaxObjPixels == 1      \* the pixels of a buffer are one of 0..MaxObjPixels

ObjMutationRate == Fin(Scale \div 2)

\* a position of inds and one of bufs that hold no object
NoInd == [Fitness |-> NaN, Image |-> 0]
NoPixels == -1

\* the first position of s that holds free, or the one after its last
FirstFree(s, free) ==
    IF \E i \in 1..Len(s) : s[i] = free
    THEN CHOOSE i \in 1..Len(s) : s[i] = free /\ \A j \in 1..(i - 1) : s[j] # free
    ELSE Len(s) + 1

Put(s, i, v) == IF i <= Len(s) THEN [s EXCEPT ![i] = v] ELSE Append(s, v)

\* &Individual{Fitness: fitness, Image: image}; at is the new object
WithIndividual(heap, fitness, image) ==
    LET new == FirstFree(heap.inds, NoInd)
    IN  [heap EXCEPT !.inds = Put(@, new, [Fitness |-> fitness, Image |-> image]),
                     !.at = new]

\* a new Individual on the Image of ind: a variant C21 has to exclude
HeapCreateCopyShallow(heap, ind) ==
    WithIndividual(heap, heap.inds[ind].Fitness, heap.inds[ind].Image)

\* CreateCopy: a new Individual on a new buffer with the pixels of ind's
HeapCreateCopy(heap, ind) ==
    LET image == FirstFree(heap.bufs, NoPixels)
    IN  WithIndividual([heap EXCEPT !.bufs = Put(@, image, heap.bufs[heap.inds[ind].Image])],
                       heap.inds[ind].Fitness, image)

\* CreateBlankCopy
HeapCreateBlankCopy(heap, ind) ==
    LET image == FirstFree(heap.bufs, NoPixels)
    IN  WithIndividual([heap EXCEPT !.bufs = Put(@, image, 0)], PInf, image)

\* a write of pixels to the Image of ind
HeapDraw(heap, ind, pixels) == [heap EXCEPT !.bufs[heap.inds[ind].Image] = pixels]

\* the polygons drawn on ind itself: a variant C24 has to exclude
HeapMutateInPlace(heap, ind, r, pixels) ==
    IF FGt(Fin(r), ObjMutationRate) THEN [heap EXCEPT !.at = ind]
    ELSE [HeapDraw(heap, ind, pixels) EXCEPT !.at = ind]

\* Mutate: r is the rand.Float64(), pixels what the polygons leave; at is
\* the individual returned
HeapMutate(heap, ind, r, pixels) ==
    IF FGt(Fin(r), ObjMutationRate) THEN [heap EXCEPT !.at = ind]
    ELSE LET copied == HeapCreateCopy(heap, ind)
         IN  HeapDraw(copied, copied.at, pixels)

\* CalculateFitness
HeapCalculateFitness(heap, ind) ==
    [heap EXCEPT !.inds[ind].Fitness = FromInt(heap.bufs[heap.inds[ind].Image])]

\* the results of sort.Slice on a slice of individuals
HeapSorted(heap, s) ==
    {t \in {[i \in 1..Len(s) |-> s[p[i]]] : p \in Permutations(1..Len(s))} :
        \A i \in 1..(Len(t) - 1) :
            ~FLt(heap.inds[t[i + 1]].Fitness, heap.inds[t[i]].Fitness)}

\* the heap without the objects that roots do not lead to
Collected(heap, roots) ==
    [heap EXCEPT
        !.inds = [i \in 1..Len(@) |-> IF i \in roots THEN @[i] ELSE NoInd],
        !.bufs = [b \in 1..Len(@) |->
                     IF \E i \in roots : heap.inds[i].Image = b THEN @[b] ELSE NoPixels]]

Range(s) == {s[i] : i \in 1..Len(s)}

TheHeap == [inds |-> obj.inds, bufs |-> obj.bufs, at |-> 0]

\* what Run and evolvePopulation hold between two pair tasks
RunRoots(population, newPopulation, best) ==
    (Range(population) \cup Range(newPopulation) \cup {best}) \ {0}

NoMutation == [ind |-> NoInd, pixels |-> NoPixels, inds |-> {}, bufs |-> {}]

ObjInit ==
    /\ \E n \in 1..MaxObjPop, generations \in 1..MaxObjGen :
          \E pixels \in [1..n -> 0..MaxObjPixels] :
             /\ \A i \in 1..(n - 1) : pixels[i] <= pixels[i + 1]
             /\ obj = [pc |-> "gen",
                       inds |-> [i \in 1..n |-> [Fitness |-> FromInt(pixels[i]), Image |-> i]],
                       bufs |-> pixels,
                       Population |-> [i \in 1..n |-> i],
                       newPopulation |-> <<>>,
                       PopulationSize |-> n, Generations |-> generations, gen |-> 0,
                       bestFitness |-> PInf, bestIndividual |-> 0,
                       snapshot |-> [Fitness |-> PInf, pixels |-> NoPixels],
                       idx |-> 0, parent1 |-> 0, parent2 |-> 0, child1 |-> 0, child2 |-> 0,
                       mutIn |-> 0, mutOut |-> 0, before |-> NoMutation,
                       stored |-> <<0, 0>>]
    /\ args = NoArgs
    /\ pc = "idle"
    /\ ga = NoGA
    /\ err = Nil
    /\ gen = 0
    /\ bestFitness = PInf
    /\ bestIndividual = NilIndividual
    /\ ams = NoAms
    /\ ev = NoEv
    /\ tasks = <<>>
    /\ batchChan = <<>>
    /\ recv = NoRecv
    /\ fit = NoFit
    /\ initialFitness = PInf
    /\ sel = NoSel
    /\ rz = NoRz
    /\ cx = NoCx
    /\ au = NoAu
    /\ mu = NoMu
    /\ cache = NoCache

ObjFrame ==
    UNCHANGED <<args, pc, ga, err, gen, bestFitness, bestIndividual, ams, ev, tasks,
                batchChan, recv, fit, initialFitness, sel, rz, cx, au, mu, cache>>

\* Run: the loop's test and the call of evolvePopulation up to the first pair
objEvolve ==
    /\ obj.pc = "gen"
    /\ obj.gen < obj.Generations
    /\ obj' = [obj EXCEPT
                 !.pc = IF 0 < obj.PopulationSize - 1 THEN "select" ELSE "odd",
                 !.newPopulation = [i \in 1..obj.PopulationSize |-> 0],
                 !.idx = 0, !.stored = <<0, 0>>]
    /\ ObjFrame

\* a pair task: the two parents and Crossover.  patchCrossover starts from
\* CreateCopy of the parents, the other strategies from CreateBlankCopy.
objCrossover ==
    /\ obj.pc = "select"
    /\ \E i, j \in 1..obj.PopulationSize, patch \in BOOLEAN,
          pixels1, pixels2 \in 0..MaxObjPixels :
          LET parent1 == obj.Population[i]
              parent2 == obj.Population[j]
              h1 == IF patch THEN HeapCreateCopy(TheHeap, parent1)
                    ELSE HeapCreateBlankCopy(TheHeap, parent1)
              h2 == IF patch THEN HeapCreateCopy(h1, parent2)
                    ELSE HeapCreateBlankCopy(h1, parent2)
              h3 == HeapDraw(HeapDraw(h2, h1.at, pixels1), h2.at, pixels2)
          IN  obj' = [obj EXCEPT !.pc = "mutate1", !.inds = h3.inds, !.bufs = h3.bufs,
                                 !.parent1 = parent1, !.parent2 = parent2,
                                 !.child1 = h1.at, !.child2 = h2.at]
    /\ ObjFrame

\* child1 = ga.Mutate(child1) for which = 1, child2 = ga.Mutate(child2) for
\* which = 2.  mutIn, mutOut and before hold the call for C24: the argument,
\* the result, and the argument's fields and pixels and the objects there
\* were when it was made.
objMutate(which) ==
    /\ obj.pc = (IF which = 1 THEN "mutate1" ELSE "mutate2")
    /\ \E r \in Float64Draws, pixels \in 0..MaxObjPixels :
          LET ind == IF which = 1 THEN obj.child1 ELSE obj.child2
              other == IF which = 1 THEN obj.child2 ELSE obj.child1
              mutated == HeapMutate(TheHeap, ind, r, pixels)
              h == Collected(mutated,
                             RunRoots(obj.Population, obj.newPopulation, obj.bestIndividual)
                                \cup {ind, other, mutated.at})
          IN  obj' = [obj EXCEPT
                        !.pc = IF which = 1 THEN "mutate2" ELSE "score",
                        !.inds = h.inds, !.bufs = h.bufs,
                        !.child1 = IF which = 1 THEN mutated.at ELSE @,
                        !.child2 = IF which = 2 THEN mutated.at ELSE @,
                        !.mutIn = ind, !.mutOut = mutated.at,
                        !.before = [ind |-> obj.inds[ind],
                                    pixels |-> obj.bufs[obj.inds[ind].Image],
                                    inds |-> {i \in 1..Len(obj.inds) : obj.inds[i] # NoInd},
                                    bufs |-> {b \in 1..Len(obj.bufs) : obj.bufs[b] # NoPixels}]]
    /\ ObjFrame

objScore ==
    /\ obj.pc = "score"
    /\ LET scored == HeapCalculateFitness(HeapCalculateFitness(TheHeap, obj.child1),
                                          obj.child2)
           h == Collected(scored,
                          RunRoots(obj.Population, obj.newPopulation, obj.bestIndividual)
                             \cup {obj.child1, obj.child2})
       IN  obj' = [obj EXCEPT !.pc = "store", !.inds = h.inds, !.bufs = h.bufs,
                              !.mutIn = 0, !.mutOut = 0, !.before = NoMutation]
    /\ ObjFrame

\* the best two of the candidates, their copies sent and stored in the
\* slots idx and idx + 1, and the step to the next pair; stored holds the
\* two candidates copied
objStore ==
    /\ obj.pc = "store"
    /\ \E candidates \in HeapSorted(TheHeap,
                            <<obj.child1, obj.child2, obj.parent1, obj.parent2>>) :
          LET h1 == HeapCreateCopy(TheHeap, candidates[1])
              h2 == HeapCreateCopy(h1, candidates[2])
              next == obj.idx + 2
              newPopulation == [obj.newPopulation EXCEPT ![obj.idx + 1] = h1.at,
                                                         ![obj.idx + 2] = h2.at]
              h == Collected(h2, RunRoots(obj.Population, newPopulation, obj.bestIndividual))
          IN  obj' = [obj EXCEPT
                        !.pc = IF next < obj.PopulationSize - (obj.PopulationSize % 2)
                               THEN "select" ELSE "odd",
                        !.inds = h.inds, !.bufs = h.bufs,
                        !.newPopulation = newPopulation,
                        !.parent1 = 0, !.parent2 = 0, !.child1 = 0, !.child2 = 0,
                        !.stored = <<candidates[1], candidates[2]>>,
                        !.idx = next]
    /\ ObjFrame

\* the slot of an odd population
objOdd ==
    /\ obj.pc = "odd"
    /\ IF obj.PopulationSize % 2 # 0
       THEN LET h == HeapCreateCopy(TheHeap, obj.Population[1])
            IN  obj' = [obj EXCEPT !.pc = "sort", !.inds = h.inds, !.bufs = h.bufs,
                                   !.newPopulation[obj.PopulationSize] = h.at]
       ELSE obj' = [obj EXCEPT !.pc = "sort"]
    /\ ObjFrame

\* the sort and the return of evolvePopulation, and the rest of the body of
\* Run's loop; snapshot holds the fitness and the pixels bestIndividual was
\* made with
objInstall ==
    /\ obj.pc = "sort"
    /\ \E newPopulation \in HeapSorted(TheHeap, obj.newPopulation) :
          LET currentBest == newPopulation[1]
              improved == FLt(obj.inds[currentBest].Fitness, obj.bestFitness)
              copied == IF improved THEN HeapCreateCopy(TheHeap, currentBest) ELSE TheHeap
              best == IF improved THEN copied.at ELSE obj.bestIndividual
              h == Collected(copied, RunRoots(newPopulation, <<>>, best))
          IN  obj' = [obj EXCEPT
                        !.pc = IF obj.gen + 1 < obj.Generations THEN "gen" ELSE "done",
                        !.inds = h.inds, !.bufs = h.bufs,
                        !.Population = newPopulation,
                        !.newPopulation = <<>>,
                        !.bestFitness = IF improved THEN obj.inds[currentBest].Fitness ELSE @,
                        !.bestIndividual = best,
                        !.snapshot = IF improved
                                     THEN [Fitness |-> obj.inds[currentBest].Fitness,
                                           pixels |-> obj.bufs[obj.inds[currentBest].Image]]
                                     ELSE @,
                        !.gen = @ + 1]
    /\ ObjFrame

ObjNext ==
    \/ objEvolve
    \/ objCrossover
    \/ \E which \in {1, 2} : objMutate(which)
    \/ objScore
    \/ objStore
    \/ objOdd
    \/ objInstall

ObjSpec == ObjInit /\ [][ObjNext]_vars

\* C21: every individual evolvePopulation puts into the new population is a
\* fresh deep copy: it is no individual of the input population and of no
\* other slot, and its pixel buffer is the buffer of none of them, also when
\* one parent has won both slots of a pair; and the best-ever snapshot of Run
\* is an object of its own, on a buffer of its own, whose pixels and fitness
\* stay what they were when it was made.
C21_FreshDeepCopies ==
    /\ obj.pc \in {"select", "mutate1", "mutate2", "score", "store", "odd", "sort"} =>
          \A i \in 1..Len(obj.newPopulation) :
             obj.newPopulation[i] # 0 =>
                LET new == obj.newPopulation[i]
                IN  /\ obj.inds[new] # NoInd
                    /\ obj.bufs[obj.inds[new].Image] # NoPixels
                    /\ \A k \in 1..Len(obj.Population) :
                          /\ obj.Population[k] # new
                          /\ obj.inds[obj.Population[k]].Image # obj.inds[new].Image
                    /\ \A j \in 1..Len(obj.newPopulation) :
                          j # i /\ obj.newPopulation[j] # 0 =>
                             /\ obj.newPopulation[j] # new
                             /\ obj.inds[obj.newPopulation[j]].Image # obj.inds[new].Image
    /\ obj.pc # "idle" /\ obj.bestIndividual # 0 =>
          LET best == obj.bestIndividual
          IN  /\ best \notin Range(obj.Population) \cup Range(obj.newPopulation)
              /\ \A i \in 1..Len(obj.inds) :
                    i # best /\ obj.inds[i] # NoInd =>
                       obj.inds[i].Image # obj.inds[best].Image
              /\ obj.inds[best].Fitness = obj.snapshot.Fitness
              /\ obj.bufs[obj.inds[best].Image] = obj.snapshot.pixels

\* in the second generation one individual of the population, chosen as
\* both parents, has won both slots of the pair, and its two copies are in
\* the slots; the snapshot of the first generation is still held and the
\* children of the pair had other pixels than it
C21_SameParentTwice ==
    /\ obj.pc \in {"odd", "sort"}
    /\ obj.gen = 1
    /\ obj.bestIndividual # 0
    /\ obj.stored[1] = obj.stored[2]
    /\ obj.stored[1] \in Range(obj.Population)
    /\ obj.newPopulation[1] # obj.newPopulation[2]
    /\ obj.bufs[obj.inds[obj.newPopulation[1]].Image] = obj.bufs[obj.inds[obj.stored[1]].Image]
    /\ obj.bufs[obj.inds[obj.newPopulation[2]].Image] = obj.bufs[obj.inds[obj.stored[1]].Image]

\* C24: Mutate returns the individual it was given, or a newly created one
\* that is not its argument; in both cases the argument's fitness and
\* pixels are what they were before the call.
C24_MutateLeavesInput ==
    obj.pc # "idle" /\ obj.mutIn # 0 =>
        /\ \/ obj.mutOut = obj.mutIn
           \/ /\ obj.mutOut \notin obj.before.inds
              /\ obj.inds[obj.mutOut].Image \notin obj.before.bufs
              /\ obj.inds[obj.mutOut].Image # obj.inds[obj.mutIn].Image
        /\ obj.inds[obj.mutIn] = obj.before.ind
        /\ obj.bufs[obj.inds[obj.mutIn].Image] = obj.before.pixels

\* Mutate has returned a new individual whose pixels are not the argument's
C24_MutatedCopy ==
    /\ obj.pc = "score"
    /\ obj.mutIn # 0
    /\ obj.mutOut # obj.mutIn
    /\ obj.bufs[obj.inds[obj.mutOut].Image] # obj.bufs[obj.inds[obj.mutIn].Image]
    /\ obj.child2 = obj.mutOut

-----------------------------------------------------------------------------
(* utils/maths.go and mathutil: FloorPowerOfTen (PowSpec) *)

MaxPowN == 120         \* arguments -MaxPowN..MaxPowN and the powers of ten +-1

\* utils.FloorPowerOfTen: the tests unrolled, then the division loop
UtilsFloorPowerOfTen(n) ==
    IF n <= 0 THEN 1
    ELSE IF n < 10 THEN 1
    ELSE IF n < 100 THEN 10
    ELSE IF n < 1000 THEN 100
    ELSE IF n < 10000 THEN 1000
    ELSE IF n < 100000 THEN 10000
    ELSE IF n < 1000000 THEN 100000
    ELSE DivideDown(n, 1)

PowArguments ==
    ((-MaxPowN)..MaxPowN) \cup {10 ^ k + d : k \in 2..9, d \in {-1, 0, 1}}
        \cup {2 * 10 ^ 9, -(2 * 10 ^ 9)}

PowInit ==
    /\ \E n \in PowArguments, package \in {"mathutil", "utils"} :
          mu = [pc |-> "call", package |-> package, n |-> n, result |-> 0]
    /\ args = NoArgs
    /\ pc = "idle"
    /\ ga = NoGA
    /\ err = Nil
    /\ gen = 0
    /\ bestFitness = PInf
    /\ bestIndividual = NilIndividual
    /\ ams = NoAms
    /\ ev = NoEv
    /\ tasks = <<>>
    /\ batchChan = <<>>
    /\ recv = NoRecv
    /\ fit = NoFit
    /\ initialFitness = PInf
    /\ sel = NoSel
    /\ rz = NoRz
    /\ cx = NoCx
    /\ obj = NoObj
    /\ au = NoAu
    /\ cache = NoCache

MuFrame ==
    UNCHANGED <<args, pc, ga, err, gen, bestFitness, bestIndividual, ams, ev, tasks,
                batchChan, recv, fit, initialFitness, sel, rz, cx, obj, au, cache>>

powCall ==
    /\ mu.pc = "call"
    /\ mu' = [mu EXCEPT !.pc = "returned",
                        !.result = IF mu.package = "utils"
                                   THEN UtilsFloorPowerOfTen(mu.n)
                                   ELSE FloorPowerOfTen(mu.n)]
    /\ MuFrame

PowNext == powCall

PowSpec == PowInit /\ [][PowNext]_vars

\* C38: FloorPowerOfTen(n) is the largest power of ten that is <= n for
\* every n >= 1, and 1 for every n <= 0 (ten times the result is above n,
\* written without the product).
C38_LargestPowerOfTen ==
    mu.pc = "returned" =>
        IF mu.n <= 0 THEN mu.result = 1
        ELSE /\ \E k \in 0..9 : mu.result = 10 ^ k
             /\ mu.result <= mu.n
             /\ mu.n \div 10 < mu.result

\* the call with 10000000, the first argument past the table, has returned
C38_PastTheTable ==
    /\ mu.pc = "returned"
    /\ mu.package = "mathutil"
    /\ mu.n = 10 ^ 7
    /\ mu.result = 10 ^ 7

-----------------------------------------------------------------------------
(* mathutil/random.go: RandomBetween on 64-bit integers (RandSpec).  An int
   is held in two's complement as four 16-bit limbs, the lowest first. *)

Limb == 2 ^ 16

\* x + y + c of int: the carry out of bit 63 is lost
AddWithCarry(x, y, c) ==
    LET s1 == x[1] + y[1] + c
        s2 == x[2] + y[2] + s1 \div Limb
        s3 == x[3] + y[3] + s2 \div Limb
        s4 == x[4] + y[4] + s3 \div Limb
    IN  <<s1 % Limb, s2 % Limb, s3 % Limb, s4 % Limb>>

Add64(x, y) == AddWithCarry(x, y, 0)
Sub64(x, y) == AddWithCarry(x, [i \in 1..4 |-> Limb - 1 - y[i]], 1)

\* the int of a small number
Int64(n) ==
    LET magnitude == IF n < 0 THEN -n ELSE n
        limbs == <<magnitude % Limb, magnitude \div Limb, 0, 0>>
    IN  IF n < 0 THEN Sub64(<<0, 0, 0, 0>>, limbs) ELSE limbs

MaxInt64 == <<Limb - 1, Limb - 1, Limb - 1, Limb \div 2 - 1>>
MinInt64 == <<0, 0, 0, Limb \div 2>>

IsNegative64(x) == x[4] >= Limb \div 2

\* x < y of int
Less64(x, y) ==
    IF IsNegative64(x) # IsNegative64(y) THEN IsNegative64(x)
    ELSE \E i \in 1..4 : x[i] < y[i] /\ \A j \in (i + 1)..4 : x[j] = y[j]

\* the lowest and the highest value of rand.Intn(n) for n > 0
IntnDraws(n) == {Int64(0), Sub64(n, Int64(1))}

\* RandomBetween: the panic of rand.Intn for an argument <= 0, or the values
\* returned for the draws of IntnDraws
RandomBetween64(a, b) ==
    LET lo == IF Less64(b, a) THEN b ELSE a
        hi == IF Less64(b, a) THEN a ELSE b
        n == Add64(Sub64(hi, lo), Int64(1))
    IN  IF ~Less64(Int64(0), n) THEN {[panic |-> TRUE, v |-> Int64(0)]}
        ELSE {[panic |-> FALSE, v |-> Add64(draw, lo)] : draw \in IntnDraws(n)}

RandArguments ==
    {Int64(n) : n \in {-10, -1, 0, 1, 20, 49, 50, 100, 1000}} \cup {MinInt64, MaxInt64}

RandInit ==
    /\ \E a \in RandArguments, b \in RandArguments :
          mu = [pc |-> "call", a |-> a, b |-> b, v |-> Int64(0)]
    /\ args = NoArgs
    /\ pc = "idle"
    /\ ga = NoGA
    /\ err = Nil
    /\ gen = 0
    /\ bestFitness = PInf
    /\ bestIndividual = NilIndividual
    /\ ams = NoAms
    /\ ev = NoEv
    /\ tasks = <<>>
    /\ batchChan = <<>>
    /\ recv = NoRecv
    /\ fit = NoFit
    /\ initialFitness = PInf
    /\ sel = NoSel
    /\ rz = NoRz
    /\ cx = NoCx
    /\ obj = NoObj
    /\ au = NoAu
    /\ cache = NoCache

randCall ==
    /\ mu.pc = "call"
    /\ \E res \in RandomBetween64(mu.a, mu.b) :
          mu' = [mu EXCEPT !.pc = IF res.panic THEN "panic" ELSE "returned", !.v = res.v]
    /\ MuFrame

RandNext == randCall

RandSpec == RandInit /\ [][RandNext]_vars

-----------------------------------------------------------------------------
(* mutation.go: the numbers Mutate draws (DrawSpec): the iterations and the
   points of each polygon, on an image on which no draw of a position
   panics. *)

minMutationIterations == 1
maxMutationIterationsBase == 3
radicalMutationExtraIterations == 3
minPolygonPoints == 3
maxPolygonPoints == 6
highMutationExtraPoints == 2

highMutationRate == Fin(Scale \div 10)       \* 0.1

DrawRates ==
    {Fin(0), Fin(Scale \div 20), Fin(Scale \div 10), Fin(Scale \div 5),
     Fin((4 * Scale) \div 10), FromInt(1)}

\* the values of iterations: r is the rand.Float64() of the radical mutation
Iterations(rate, r) ==
    {it + extra :
        it \in RandomBetween(minMutationIterations, maxMutationIterationsBase),
        extra \in IF FGt(rate, highMutationRate) /\ FLt(Fin(r), FMul(rate, FromInt(2)))
                  THEN 0..(radicalMutationExtraIterations - 1)
                  ELSE {0}}

\* the values of numPoints
NumPoints(rate) ==
    {n + (IF FGt(rate, highMutationRate) THEN highMutationExtraPoints ELSE 0) :
        n \in RandomBetween(minPolygonPoints, maxPolygonPoints)}

DrawInit ==
    /\ \E rate \in DrawRates :
          mu = [pc |-> "call", rate |-> rate, iterations |-> 0, i |-> 0, points |-> <<>>]
    /\ args = NoArgs
    /\ pc = "idle"
    /\ ga = NoGA
    /\ err = Nil
    /\ gen = 0
    /\ bestFitness = PInf
    /\ bestIndividual = NilIndividual
    /\ ams = NoAms
    /\ ev = NoEv
    /\ tasks = <<>>
    /\ batchChan = <<>>
    /\ recv = NoRecv
    /\ fit = NoFit
    /\ initialFitness = PInf
    /\ sel = NoSel
    /\ rz = NoRz
    /\ cx = NoCx
    /\ obj = NoObj
    /\ au = NoAu
    /\ cache = NoCache

\* Mutate up to the loop: the test of the rate and the iterations
drawIterations ==
    /\ mu.pc = "call"
    /\ \E r \in Float64Draws, r2 \in Float64Draws :
          IF FGt(Fin(r), mu.rate)
          THEN mu' = [mu EXCEPT !.pc = "unchanged"]
          ELSE \E iterations \in Iterations(mu.rate, r2) :
                  mu' = [mu EXCEPT !.pc = "polygons", !.iterations = iterations, !.i = 0]
    /\ MuFrame

\* one iteration of the loop: the points of the polygon
drawPolygon ==
    /\ mu.pc = "polygons"
    /\ mu.i < mu.iterations
    /\ \E numPoints \in NumPoints(mu.rate) :
          mu' = [mu EXCEPT !.i = @ + 1, !.points = Append(@, numPoints)]
    /\ MuFrame

drawReturn ==
    /\ mu.pc = "polygons"
    /\ ~(mu.i < mu.iterations)
    /\ mu' = [mu EXCEPT !.pc = "mutated"]
    /\ MuFrame

DrawNext == drawIterations \/ drawPolygon \/ drawReturn

DrawSpec == DrawInit /\ [][DrawNext]_vars

\* C31: every polygon Mutate draws has between 3 and 6 vertices, whatever the
\* mutation rate, rates above 0.1 included; a mutation draws between 1 and 5
\* polygons, and more than 3 only when the mutation rate is above 0.1.
C31_PolygonCounts ==
    mu.pc \in {"polygons", "mutated"} =>
        /\ \A j \in 1..Len(mu.points) : 3 <= mu.points[j] /\ mu.points[j] <= 6
        /\ 1 <= mu.iterations /\ mu.iterations <= 5
        /\ mu.iterations > 3 => FGt(mu.rate, highMutationRate)
        /\ mu.pc = "mutated" => Len(mu.points) = mu.iterations

-----------------------------------------------------------------------------
(* mutation.go: the controller over the generations of a long run
   (AmsSpec).  Run calls Update once a generation, g = 0, 1, ...; the
   population is one individual whose fitness stays or falls by a tenth
   from one generation to the next.  au.stamps holds, for every slot of the
   history, the number of the update that wrote it (0 for none), au.before
   the history as the last update found it. *)

MaxAmsGen == 12        \* Generations of the run

AmsRates == {Fin(Scale \div 20)}
AmsFitnesses == {Fin(0), FromInt(10)}

\* the fitness of the next generation's individual
NextFitnesses(f) == {f, Fin((f[2] * 9) \div 10)}

AmsInit ==
    /\ \E rate \in AmsRates, f \in AmsFitnesses :
          au = [pc |-> "new", baseRate |-> rate, g |-> 0, fitness |-> f,
                stamps |-> [k \in 0..(mutationHistorySize - 1) |-> 0],
                before |-> NewMutationHistory(mutationHistorySize),
                stagnation |-> Fin(0), rate |-> rate]
    /\ args = NoArgs
    /\ pc = "idle"
    /\ ga = NoGA
    /\ err = Nil
    /\ gen = 0
    /\ bestFitness = PInf
    /\ bestIndividual = NilIndividual
    /\ ams = NoAms
    /\ ev = NoEv
    /\ tasks = <<>>
    /\ batchChan = <<>>
    /\ recv = NoRecv
    /\ fit = NoFit
    /\ initialFitness = PInf
    /\ sel = NoSel
    /\ rz = NoRz
    /\ cx = NoCx
    /\ obj = NoObj
    /\ mu = NoMu
    /\ cache = NoCache

AuFrame ==
    UNCHANGED <<args, pc, ga, err, gen, bestFitness, bestIndividual, ev, tasks,
                batchChan, recv, fit, initialFitness, sel, rz, cx, obj, mu, cache>>

\* Run: mutationStrategy := NewAdaptiveMutationStrategy(ga.MutationRate)
amsNew ==
    /\ au.pc = "new"
    /\ ams' = NewAdaptiveMutationStrategy(au.baseRate)
    /\ au' = [au EXCEPT !.pc = "loop"]
    /\ AuFrame

\* one generation of Run: Update on the population of the generation, and
\* the population the generation leaves
amsUpdate ==
    /\ au.pc = "loop"
    /\ au.g < MaxAmsGen
    /\ \E r \in JitterDraws, next \in NextFitnesses(au.fitness) :
          LET u == Update(ams, <<[Fitness |-> au.fitness]>>, au.g, MaxAmsGen, Fin(r))
          IN  /\ ams' = u.ams
              /\ au' = [au EXCEPT
                          !.g = @ + 1,
                          !.fitness = next,
                          !.stamps[ams.history.index] = au.g + 1,
                          !.before = ams.history,
                          !.stagnation = Stagnation(u.ams.history, au.g),
                          !.rate = u.rate]
    /\ AuFrame

amsReturn ==
    /\ au.pc = "loop"
    /\ ~(au.g < MaxAmsGen)
    /\ au' = [au EXCEPT !.pc = "done"]
    /\ UNCHANGED ams
    /\ AuFrame

AmsNext == amsNew \/ amsUpdate \/ amsReturn

AmsSpec == AmsInit /\ [][AmsNext]_vars

\* an update has been made, and the last one computed the improvement score
Updated == au.pc \in {"loop", "done"} /\ au.g >= 1
ScoreComputed == Updated /\ au.g - 1 >= ams.history.size

\* C32: the stagnation of an update is other than 0 only when the magnitude
\* of the average relative change of the recorded average fitness is below
\* 0.001; a history whose average fitness falls by more than 0.1% a
\* generation gives stagnation 0.
C32_StagnationOnlyNearZero ==
    ScoreComputed =>
        LET improvement == GetImprovementScore(ams.history)
        IN  /\ au.stagnation # Fin(0) => FLt(MathAbs(improvement), improvementThreshold)
            /\ FLt(improvement, FNeg(improvementThreshold)) => au.stagnation = Fin(0)

\* C33: on every update after the first, plateauCount is one more than
\* before if |bestFitness - lastBest| < 0.01 and 0 otherwise, also when the
\* best fitness before was exactly 0; lastBest is then the current best.
C33_PlateauCounted ==
    (Updated /\ au.g >= 2) =>
        /\ ams.history.plateauCount =
              IF FLt(FAbs(FSub(ams.history.lastBest, au.before.lastBest)),
                     plateauFitnessThreshold)
              THEN au.before.plateauCount + 1
              ELSE 0
        /\ ams.history.lastBest = ams.history.history[au.before.index]

\* C34: the index of the history stays in [0, size) and every Record
\* overwrites the oldest sample; whenever the score is computed in a run all
\* slots hold samples of earlier updates and each of the size - 1 pairs
\* compared is a sample and the one recorded just before it, never the
\* newest with the oldest.
C34_HistoryIsARing ==
    au.pc \in {"loop", "done"} =>
        LET h == ams.history
            slots == 0..(h.size - 1)
        IN  /\ h.index \in slots
            /\ Updated =>
                  /\ au.stamps[au.before.index] = au.g
                  /\ \A k \in slots : k # au.before.index => au.stamps[k] < au.g
                  /\ \A k \in slots :
                        au.stamps[k] = 0 \/ au.stamps[k] > au.g - h.size
                  /\ \A k \in slots :
                        k # au.before.index => h.history[k] = au.before.history[k]
            /\ ScoreComputed =>
                  /\ \A k \in slots : au.stamps[k] >= 1
                  /\ \A i \in 0..(h.size - 2) :
                        LET pair == ScorePair(h, i)
                        IN  /\ au.stamps[pair[1]] = au.g - i
                            /\ au.stamps[pair[2]] = au.stamps[pair[1]] - 1

\* the score of the twelfth update: the newest sample is in slot 1 and the
\* pairs run back over the end of the slice to slot 2, the oldest sample
C34_ScoreAcrossTheEnd ==
    /\ ScoreComputed
    /\ au.g = 12
    /\ ams.history.index = 2
    /\ au.stamps[0] = 11
    /\ au.stamps[9] = 10
    /\ au.stamps[2] = 3
    /\ ams.history.history[1] # ams.history.history[2]

-----------------------------------------------------------------------------
(* mutation.go: cacheManager.getMutationCache called by concurrent Mutate
   calls (CacheSpec).  cache.entries is the sync.Map, whose Load and Store
   are atomic; an entry is the *MutationCache of the caller that stored it.
   cache.first holds the values of the first entry stored for a key. *)

MaxCallers == 3        \* concurrent callers 2..MaxCallers

\* the areas: an empty image, one pixel, below 16 pixels, 16 pixels, 8 x 8
CacheRegions == {0, 1, 7, 16, 64}

\* the struct filled after it is stored, so that the map holds its zero
\* value: a variant C37 has to exclude
NewMutationCacheEmpty(region, caller) ==
    [LogSizeTimes5 |-> 0, FloorPower |-> 0, MaxLimit |-> 0, by |-> caller]

\* &MutationCache{...} of getMutationCache; LogSize is held as int(logSize*5),
\* region >> 4 as four halvings
NewMutationCache(region, caller) ==
    [LogSizeTimes5 |-> LogSizeTimes5(region),
     FloorPower |-> FloorPowerOfTen(region),
     MaxLimit |-> (((region \div 2) \div 2) \div 2) \div 2,
     by |-> caller]

NoEntry == [LogSizeTimes5 |-> 0, FloorPower |-> 0, MaxLimit |-> 0, by |-> 0]

\* the fields of a *MutationCache
CacheValues(entry) == <<entry.LogSizeTimes5, entry.FloorPower, entry.MaxLimit>>

CacheInit ==
    /\ \E n \in 2..MaxCallers :
          \E regions \in [1..n -> CacheRegions] :
             cache = [pc |-> [c \in 1..n |-> "call"],
                      region |-> regions,
                      result |-> [c \in 1..n |-> NoEntry],
                      entries |-> [r \in CacheRegions |-> NoEntry],
                      first |-> [r \in CacheRegions |-> NoEntry]]
    /\ args = NoArgs
    /\ pc = "idle"
    /\ ga = NoGA
    /\ err = Nil
    /\ gen = 0
    /\ bestFitness = PInf
    /\ bestIndividual = NilIndividual
    /\ ams = NoAms
    /\ ev = NoEv
    /\ tasks = <<>>
    /\ batchChan = <<>>
    /\ recv = NoRecv
    /\ fit = NoFit
    /\ initialFitness = PInf
    /\ sel = NoSel
    /\ rz = NoRz
    /\ cx = NoCx
    /\ obj = NoObj
    /\ au = NoAu
    /\ mu = NoMu

CacheFrame ==
    UNCHANGED <<args, pc, ga, err, gen, bestFitness, bestIndividual, ams, ev, tasks,
                batchChan, recv, fit, initialFitness, sel, rz, cx, obj, au, mu>>

\* cm.cache.Load(region), and the return of the entry found
cacheLoad(c) ==
    /\ cache.pc[c] = "call"
    /\ LET cached == cache.entries[cache.region[c]]
       IN  IF cached # NoEntry
           THEN cache' = [cache EXCEPT !.pc[c] = "returned", !.result[c] = cached]
           ELSE cache' = [cache EXCEPT !.pc[c] = "miss"]
    /\ CacheFrame

\* after a miss: the values, cm.cache.Store(region, cache) and the return
cacheStore(c) ==
    /\ cache.pc[c] = "miss"
    /\ LET region == cache.region[c]
           new == NewMutationCache(region, c)
       IN  cache' = [cache EXCEPT
                       !.pc[c] = "returned",
                       !.result[c] = NewMutationCache(region, c),
                       !.entries[region] = new,
                       !.first[region] = IF @ = NoEntry THEN new ELSE @]
    /\ CacheFrame

CacheNext ==
    \E c \in 1..MaxCallers :
        /\ cache # NoCache
        /\ c \in DOMAIN cache.pc
        /\ (cacheLoad(c) \/ cacheStore(c))

CacheSpec == CacheInit /\ [][CacheNext]_vars

\* C37: in every interleaving of concurrent getMutationCache calls for one
\* area, two callers that both miss and both store included, every caller
\* gets the same values, LogSize, FloorPower and MaxLimit = area / 16, and the
\* values of the entry of a key are those of the first entry stored for it.
C37_SameValuesForAllCallers ==
    cache # NoCache =>
        /\ \A c \in DOMAIN cache.pc :
              cache.pc[c] = "returned" =>
                 /\ cache.result[c].MaxLimit = cache.region[c] \div 16
                 /\ cache.result[c].FloorPower = FloorPowerOfTen(cache.region[c])
                 /\ cache.result[c].by # 0
                 /\ \A d \in DOMAIN cache.pc :
                       (cache.pc[d] = "returned" /\ cache.region[d] = cache.region[c]) =>
                          CacheValues(cache.result[d]) = CacheValues(cache.result[c])
        /\ \A r \in CacheRegions :
              /\ (cache.entries[r] = NoEntry) = (cache.first[r] = NoEntry)
              /\ CacheValues(cache.entries[r]) = CacheValues(cache.first[r])

\* two callers for 64 pixels have both missed and both stored, the second
\* store replacing the first one's entry; a third caller has found the entry
C37_BothMissedBothStored ==
    /\ cache.pc = <<"returned", "returned", "returned">>
    /\ cache.region = <<64, 64, 64>>
    /\ cache.result[1].by = 1
    /\ cache.result[2].by = 2
    /\ cache.first[64].by = 1
    /\ cache.entries[64].by = 2
    /\ cache.result[3].by = 2
    /\ cache.result[3].MaxLimit = 4

-----------------------------------------------------------------------------
(* algorithm.go: the batch loop of evolvePopulation alone, for populations
   and processor counts beyond those of Spec (BatchSpec).  mu.start and
   mu.end are the loop's variables, mu.batches the number of batches begun. *)

MaxBatchPop == 13      \* ga.PopulationSize in 0..MaxBatchPop
MaxBatchCPU == 4       \* runtime.NumCPU() in 1..MaxBatchCPU

BatchInit ==
    /\ \E n \in 0..MaxBatchPop, c \in 1..MaxBatchCPU :
          mu = [pc |-> "call", PopulationSize |-> n, numCPU |-> c, batchSize |-> 0,
                start |-> 0, end |-> 0, batches |-> 0]
    /\ args = NoArgs
    /\ pc = "idle"
    /\ ga = NoGA
    /\ err = Nil
    /\ gen = 0
    /\ bestFitness = PInf
    /\ bestIndividual = NilIndividual
    /\ ams = NoAms
    /\ ev = NoEv
    /\ tasks = <<>>
    /\ batchChan = <<>>
    /\ recv = NoRecv
    /\ fit = NoFit
    /\ initialFitness = PInf
    /\ sel = NoSel
    /\ rz = NoRz
    /\ cx = NoCx
    /\ obj = NoObj
    /\ au = NoAu
    /\ cache = NoCache

\* batchSize := ..., and start := 0
batchSizeOf ==
    /\ mu.pc = "call"
    /\ mu' = [mu EXCEPT !.pc = "for",
                        !.batchSize = BatchSize(mu.numCPU, mu.PopulationSize)]
    /\ MuFrame

\* the loop's test and the end of the batch
batchBegin ==
    /\ mu.pc = "for"
    /\ mu.start < mu.PopulationSize - 1
    /\ mu' = [mu EXCEPT !.pc = "batch",
                        !.end = BatchEnd(mu.start, mu.batchSize, mu.PopulationSize),
                        !.batches = @ + 1]
    /\ MuFrame

\* the batch's tasks have been collected: start += batchSize
batchEnd ==
    /\ mu.pc = "batch"
    /\ mu' = [mu EXCEPT !.pc = "for", !.start = @ + mu.batchSize]
    /\ MuFrame

\* the loop is left
batchReturn ==
    /\ mu.pc = "for"
    /\ ~(mu.start < mu.PopulationSize - 1)
    /\ mu' = [mu EXCEPT !.pc = "returned"]
    /\ MuFrame

BatchNext == batchSizeOf \/ batchBegin \/ batchEnd \/ batchReturn

BatchSpec == BatchInit /\ [][BatchNext]_vars

\* the even numbers 1.5 x numCPU can be rounded to, downwards or upwards
RoundedToEven(numCPU) ==
    {e \in 0..(2 * numCPU + 2) : e % 2 = 0 /\ 2 * e - 3 * numCPU \in -3..3}

\* C36: the number of output slots of a batch of evolvePopulation is even and
\* is the smaller of 1.5 x the number of processors, rounded to an even number,
\* and N - N mod 2.
C36_BatchSlots ==
    mu.pc = "batch" =>
        /\ (mu.end - mu.start) % 2 = 0
        /\ \E e \in RoundedToEven(mu.numCPU) :
              mu.end - mu.start = Min(e, mu.PopulationSize - (mu.PopulationSize % 2))

-----------------------------------------------------------------------------
(* The controller in Run's loop (Spec) *)

\* the positions of Run between the call of Update and the end of the generation
AfterUpdate == {"batch", "spawn", "collect", "evolved", "send"}

\* a pair task of the batch has been started and has not sent its result
TaskRunning == \E k \in 1..Len(tasks) : tasks[k].st # "done"

\* C35: Update is called exactly once in every generation of Run, before the
\* generation's evolvePopulation and while no pair task runs; the value it
\* returns is stored as ga.MutationRate, which is the rate the tasks of the
\* generation read, and neither the controller nor the rate is written until
\* the loop comes round again.
C35_UpdateOncePerGeneration ==
    [][/\ pc = "loop" => ams.history.index = gen % ams.history.size
       /\ pc \in AfterUpdate => ams.history.index = (gen + 1) % ams.history.size
       /\ (pc \notin {"new", "ready"} /\ (ams' # ams \/ ga'.MutationRate # ga.MutationRate)) =>
             /\ pc = "loop"
             /\ pc' = "batch"
             /\ ~TaskRunning
             /\ tasks' = <<>>
             /\ gen' = gen
             /\ \E r \in JitterDraws :
                   LET u == Update(ams, ga.Population, gen, ga.Generations, Fin(r))
                   IN  ams' = u.ams /\ ga'.MutationRate = u.rate
       /\ (pc = "loop" /\ pc' = "batch") =>
             ams'.history.index = (ams.history.index + 1) % ams.history.size]_vars

\* the third generation: a task runs, Update has been called three times and
\* the rate is no longer the one Run was given
C35_TaskOfThirdGeneration ==
    /\ pc = "collect"
    /\ gen = 2
    /\ TaskRunning
    /\ ams.history.index = 3
    /\ ga.MutationRate # args.mutationRate

=============================================================================
